---- MODULE Spec2Model ----
(***************************************************************************)
(* Model of the event routing engine of discord-webhook-proxy.             *)
(*                                                                         *)
(* WebhookForwarder (src/webhook_forwarder.py) holds the parsed YAML       *)
(* configuration and an httpx client.  handle_event derives the routing    *)
(* scope of an event, selects the matching rules with                      *)
(* _get_matching_rules_from_config and forwards the event to every         *)
(* selected rule with _forward_to_webhook_sync.                            *)
(*                                                                         *)
(* The GUI (src/src/main.py) edits the rules in config.yaml and controls   *)
(* the listener process through ListenerManager                            *)
(* (src/src/listener_manager.py), which keeps a Popen handle and the file  *)
(* listener.pid.                                                           *)
(*                                                                         *)
(* The listener process (src/discord_listener.py) keeps the bot of        *)
(* BotManager (src/bot_manager.py) running in a worker thread and restarts *)
(* it from its supervision loop.                                           *)
(*                                                                         *)
(* Spec is the forwarder handling events, SpecReload the forwarder with    *)
(* the GUI editing the rules meanwhile, SpecSupervisor the ListenerManager *)
(* with the processes it starts and stops, SpecLogs the GUI reading the    *)
(* listener's log, SpecBot the listener's main thread with the worker      *)
(* threads of BotManager, SpecBotFair the same under fair scheduling of    *)
(* the threads, SpecGateway the callbacks of the bot for the occurrences   *)
(* of the gateway, and SpecPipe the listener logging to the pipe that      *)
(* ListenerManager attached to its standard error.                         *)
(*                                                                         *)
(* Python values are tagged records, so that values of different Python    *)
(* types are different values and str(), truthiness, json.loads and ==     *)
(* are computed the way Python computes them.                              *)
(***************************************************************************)
EXTENDS Integers, Sequences, FiniteSets, TLC

VARIABLES
    config,      \* WebhookForwarder.config["webhook_rules"]: the rule snapshot
    session,     \* WebhookForwarder.session: "none" | "open" | "closed"
    event,       \* the arguments of the last handle_event call, or NoEvent
    scope,       \* the scope handle_event derived for that event
    rules,       \* the list _get_matching_rules_from_config returned for it
    deliveries,  \* one entry per _forward_to_webhook_sync call made for it
    result,      \* how that handle_event call ended: "idle" | "returned" |
                 \* "caught" (an exception caught inside) | "raised"
    yaml_rules,  \* the webhook_rules list of config.yaml, which the GUI edits
    process,     \* ListenerManager.process: None or the Popen handle
    pid_file,    \* listener.pid: Absent, or the text it holds
    procs,       \* the operating system's process table, by pid
    call,        \* the last ListenerManager call and what it did, or NoCall
    log_file,    \* discord_listener.log: Absent, or the list of its lines,
                 \* oldest first
    bot,         \* BotManager.bot: None or the bot a worker thread created
    bot_is_running, \* BotManager._is_running
    threads,     \* the worker threads BotManager.start created, and the bot
                 \* of each
    main_pc,     \* where the listener's main thread is
    main_ctx,    \* the call the main thread is in, and what it found
    exit_status, \* the exit status of the listener process, or None
    callback,    \* the last gateway occurrence and what its callback did
    bot_section, \* the bot section of config.yaml
    listener,    \* the listener process as its log handlers see it:
                 \* "none" | "running" | "blocked" (inside a write) | "dead"
    stderr_pipe  \* the pipe Popen attached to the listener's standard error

forwarderVars == <<config, session, event, scope, rules, deliveries, result>>
supervisorVars == <<process, pid_file, procs, call>>
botVars == <<bot, bot_is_running, threads, main_pc, main_ctx, exit_status>>
pipeVars == <<listener, stderr_pipe>>
vars == <<forwarderVars, yaml_rules, supervisorVars, log_file, botVars, callback, bot_section, pipeVars>>

\* What the actions of one component leave alone.
outsideForwarder == <<yaml_rules, supervisorVars, log_file, botVars, callback, bot_section, pipeVars>>
outsideConfigFile == <<forwarderVars, supervisorVars, log_file, botVars, callback, bot_section, pipeVars>>
outsideSupervisor == <<forwarderVars, yaml_rules, log_file, botVars, callback, bot_section, pipeVars>>
outsideLogFile == <<forwarderVars, yaml_rules, botVars, callback, bot_section, pipeVars>>
outsideBot == <<forwarderVars, yaml_rules, supervisorVars, log_file, callback, bot_section, pipeVars>>
outsidePipe == <<forwarderVars, yaml_rules, supervisorVars, botVars, callback, bot_section>>
outsideGateway == <<forwarderVars, yaml_rules, supervisorVars, log_file, botVars, bot_section, pipeVars>>

----------------------------------------------------------------------------
(* Bounds *)

\* Length of the longest rule snapshot built from CoreBodies.
MaxRules == 2

\* Number of process ids of the operating system.
NumPids == 2

\* Number of worker threads of the listener that exist at the same time.
MaxThreads == 2

\* Number of lines of the longest log file.
MaxLines == 3

\* Number of log records the buffer of a pipe holds.
PipeCapacity == 2

----------------------------------------------------------------------------
(* Python values *)

None == [t |-> "none"]
\* A key that the dict does not have.
Absent == [t |-> "absent"]
PyStr(s) == [t |-> "str", v |-> s]
PyInt(n) == [t |-> "int", v |-> n]
PyBool(b) == [t |-> "bool", v |-> b]
PyList(l) == [t |-> "list", v |-> l]

Digits == <<"0", "1", "2", "3", "4", "5", "6", "7", "8", "9">>

\* Decimal text of a natural number.
RECURSIVE IntStr(_)
IntStr(n) ==
    IF n < 10 THEN Digits[n + 1]
    ELSE IntStr(n \div 10) \o Digits[(n % 10) + 1]

\* The decimal texts of the numbers below 100, computed once.
NumberTexts == [n \in 0..99 |-> IntStr(n)]

\* Python str(v).
Str(v) ==
    CASE v.t = "none" -> "None"
      [] v.t = "str" -> v.v
      [] v.t = "int" -> IF v.v \in DOMAIN NumberTexts THEN NumberTexts[v.v]
                        ELSE IntStr(v.v)
      [] v.t = "bool" -> IF v.v THEN "True" ELSE "False"

\* Python truthiness, as used by `if v`, `not v` and `a and b`.
Truthy(v) ==
    CASE v.t = "none" -> FALSE
      [] v.t = "str" -> v.v # ""
      [] v.t = "int" -> v.v # 0
      [] v.t = "bool" -> v.v
      [] v.t = "list" -> Len(v.v) > 0

\* dict.get(key, default) on a value read from a dict.
Get(value, default) == IF value = Absent THEN default ELSE value

\* Python `x in l` for a list l.
In(x, l) == \E i \in 1..Len(l) : l[i] = x

----------------------------------------------------------------------------
(* json.loads on the strings a rule's event_type can hold *)

EventTypes == {"message", "member_join", "reaction_add"}

Quote(s) == "\"" \o s \o "\""

RECURSIVE JsonItems(_)
JsonItems(l) ==
    IF Len(l) = 0 THEN ""
    ELSE IF Len(l) = 1 THEN Quote(l[1])
    ELSE Quote(l[1]) \o ", " \o JsonItems(Tail(l))

\* JSON text of a list of strings.
JsonList(l) == "[" \o JsonItems(l) \o "]"

\* The lists of event types whose JSON text json.loads is asked to read.
JsonLists ==
    {<<>>} \cup {<<a>> : a \in EventTypes}
           \cup {<<a, b>> : a \in EventTypes, b \in EventTypes}

\* The JSON text of each of these lists.
JsonTexts == [l \in JsonLists |-> JsonList(l)]

\* The JSON text of each event type as a JSON string.
QuotedTypes == [w \in EventTypes |-> Quote(w)]

\* json.loads(s): the parsed value, or [t |-> "error"] when it raises.
JsonLoads(s) ==
    IF \E l \in JsonLists : JsonTexts[l] = s
    THEN LET l == CHOOSE l \in JsonLists : JsonTexts[l] = s
         IN  PyList([i \in 1..Len(l) |-> PyStr(l[i])])
    ELSE IF \E w \in EventTypes : QuotedTypes[w] = s
    THEN PyStr(CHOOSE w \in EventTypes : QuotedTypes[w] = s)
    ELSE IF \E n \in 0..99 : NumberTexts[n] = s
    THEN PyInt(CHOOSE n \in 0..99 : NumberTexts[n] = s)
    ELSE IF s = "null" THEN None
    ELSE [t |-> "error"]

----------------------------------------------------------------------------
(* Rules and snapshots *)

RuleNames == <<"A", "B", "C", "D">>

\* A rule as the YAML loader delivers it; a missing key holds Absent.
Rule(name, url, enabled, et, st, sid) ==
    [name |-> name, webhook_url |-> url, enabled |-> enabled,
     event_type |-> et, scope_type |-> st, scope_id |-> sid]

EnabledValues == {Absent, PyBool(TRUE), PyBool(FALSE)}

RuleEventTypes ==
    {None,
     PyList(<<>>),
     PyList(<<PyStr("message"), PyStr("member_join")>>),
     PyStr("message"),
     PyStr(JsonList(<<"message", "reaction_add">>)),
     PyStr(Quote("message")),
     PyInt(42)}

\* <<scope_type, scope_id>> of a rule.
RuleScopes ==
    {<<None, None>>,
     <<PyStr("guild"), None>>,
     <<PyStr("guild"), PyStr("42")>>,
     <<PyStr("guild"), PyInt(42)>>,
     <<PyStr("channel"), PyStr("42")>>}

\* Rule fields other than the name and the url: every combination.
RuleBodies ==
    {<<e, et, sc>> : e \in EnabledValues, et \in RuleEventTypes, sc \in RuleScopes}

\* The rule bodies that longer snapshots are built from; the last one is
\* written without its webhook_url key.
CoreBodies ==
    {<<PyBool(TRUE), None, <<None, None>>, TRUE>>,
     <<PyBool(FALSE), None, <<None, None>>, TRUE>>,
     <<PyBool(TRUE), PyList(<<PyStr("message"), PyStr("member_join")>>),
       <<None, None>>, TRUE>>,
     <<PyBool(TRUE), None, <<PyStr("guild"), PyStr("42")>>, TRUE>>,
     <<PyBool(TRUE), PyStr("message"), <<PyStr("channel"), PyStr("42")>>, TRUE>>,
     <<PyBool(TRUE), None, <<None, None>>, FALSE>>}

\* The rule at position i of a snapshot: its name and url tell it apart
\* from an equal rule at another position.
RuleAt(i, b, hasUrl) ==
    Rule(PyStr(RuleNames[i]),
         IF hasUrl THEN PyStr("https://hook/" \o RuleNames[i]) ELSE Absent,
         b[1], b[2], b[3][1], b[3][2])

RECURSIVE CoreSnapshots(_)
CoreSnapshots(n) ==
    IF n = 0 THEN {<<>>}
    ELSE LET shorter == CoreSnapshots(n - 1)
         IN  shorter \cup
             {Append(s, RuleAt(n, b, b[4])) : s \in {x \in shorter : Len(x) = n - 1},
                                             b \in CoreBodies}

\* The configurations the forwarder is constructed with: every snapshot of
\* at most MaxRules core rules, and every one-rule snapshot.
Snapshots ==
    CoreSnapshots(MaxRules) \cup {<<RuleAt(1, b, TRUE)>> : b \in RuleBodies}

----------------------------------------------------------------------------
(* Events *)

NoEvent ==
    [event_type |-> "",
     data |-> [guild_id |-> Absent, channel_id |-> Absent, timestamp |-> Absent]]

GuildIds == {Absent, None, PyInt(42), PyInt(43)}
ChannelIds == {Absent, None, PyInt(42)}

\* message.created_at.isoformat() of a message, and the text that
\* datetime.now(timezone.utc).isoformat() gives when the event is forwarded.
CreatedAt == "2024-05-01T12:00:00+00:00"
DispatchTime == "2024-05-01T12:00:03.250000+00:00"

Timestamps == {Absent, PyStr(CreatedAt)}

\* The attribute mappings handle_event is called with: the keys it reads,
\* and the timestamp key that _build_message_data adds.
EventData == [guild_id : GuildIds, channel_id : ChannelIds, timestamp : Timestamps]

\* The calls of handle_event: only a message carries a timestamp.
Events ==
    {e \in [event_type : EventTypes, data : EventData] :
        e.data.timestamp # Absent => e.event_type = "message"}

NoScope == [scope_type |-> None, scope_id |-> None]

----------------------------------------------------------------------------
(* WebhookForwarder._get_matching_rules_from_config *)

\* Skipped with the default of the enabled key turned around.
Skipped_DefaultFalse(rule) == ~Truthy(Get(rule.enabled, PyBool(FALSE)))

\* `not rule.get("enabled", True)`: the rule is skipped.
Skipped(rule) == ~Truthy(Get(rule.enabled, PyBool(TRUE)))

\* EventMatch without the json.loads attempt on a string event_type.
EventMatch_NoJson(rule, event_type) ==
    LET rule_event_type == Get(rule.event_type, None)
    IN  IF rule_event_type = None THEN TRUE
        ELSE IF rule_event_type.t = "list"
        THEN In(PyStr(event_type), rule_event_type.v)
        ELSE IF rule_event_type.t = "str"
        THEN rule_event_type = PyStr(event_type)
        ELSE FALSE

\* EventMatch testing `if not rule_event_type` in place of `is None`, which
\* makes an empty list match every event type.
EventMatch_FalsyIsAll(rule, event_type) ==
    LET rule_event_type == Get(rule.event_type, None)
    IN  IF ~Truthy(rule_event_type) THEN TRUE
        ELSE IF rule_event_type.t = "list"
        THEN In(PyStr(event_type), rule_event_type.v)
        ELSE IF rule_event_type.t = "str"
        THEN LET event_types == JsonLoads(rule_event_type.v)
             IN  IF event_types.t = "list"
                 THEN In(PyStr(event_type), event_types.v)
                 ELSE rule_event_type = PyStr(event_type)
        ELSE FALSE

\* event_match of one rule.
EventMatch(rule, event_type) ==
    LET rule_event_type == Get(rule.event_type, None)
    IN  IF rule_event_type = None THEN TRUE
        ELSE IF rule_event_type.t = "list"
        THEN In(PyStr(event_type), rule_event_type.v)
        ELSE IF rule_event_type.t = "str"
        THEN LET event_types == JsonLoads(rule_event_type.v)
             IN  IF event_types.t = "list"
                 THEN In(PyStr(event_type), event_types.v)
                 ELSE rule_event_type = PyStr(event_type)
        ELSE FALSE

\* ScopeMatch comparing the ids without str().
ScopeMatch_NoStr(rule, scope_type, scope_id) ==
    LET rule_scope_type == Get(rule.scope_type, None)
        rule_scope_id == Get(rule.scope_id, None)
    IN  IF Truthy(scope_type) /\ Truthy(scope_id) /\ rule_scope_type # None
        THEN rule_scope_type = scope_type /\ rule_scope_id = scope_id
        ELSE TRUE

\* ScopeMatch that also asks for a rule scope_id before it compares.
ScopeMatch_NeedsRuleId(rule, scope_type, scope_id) ==
    LET rule_scope_type == Get(rule.scope_type, None)
        rule_scope_id == Get(rule.scope_id, None)
    IN  IF /\ Truthy(scope_type) /\ Truthy(scope_id)
           /\ rule_scope_type # None /\ rule_scope_id # None
        THEN rule_scope_type = scope_type /\ Str(rule_scope_id) = Str(scope_id)
        ELSE TRUE

\* scope_match of one rule.
ScopeMatch(rule, scope_type, scope_id) ==
    LET rule_scope_type == Get(rule.scope_type, None)
        rule_scope_id == Get(rule.scope_id, None)
    IN  IF Truthy(scope_type) /\ Truthy(scope_id) /\ rule_scope_type # None
        THEN rule_scope_type = scope_type /\ Str(rule_scope_id) = Str(scope_id)
        ELSE TRUE

\* The body of the `for rule in rules` loop: what it appends for one rule.
MatchOne(rule, event_type, scope_type, scope_id) ==
    IF Skipped(rule) THEN <<>>
    ELSE IF EventMatch(rule, event_type) /\ ScopeMatch(rule, scope_type, scope_id)
    THEN <<rule>>
    ELSE <<>>

\* MatchLoop that leaves the loop at the first match.
RECURSIVE MatchLoop_FirstMatch(_, _, _, _, _)
MatchLoop_FirstMatch(rs, i, event_type, scope_type, scope_id) ==
    IF i > Len(rs) THEN <<>>
    ELSE LET one == MatchOne(rs[i], event_type, scope_type, scope_id)
         IN  IF one # <<>> THEN one
             ELSE MatchLoop_FirstMatch(rs, i + 1, event_type, scope_type, scope_id)

RECURSIVE MatchLoop(_, _, _, _, _)
MatchLoop(rs, i, event_type, scope_type, scope_id) ==
    IF i > Len(rs) THEN <<>>
    ELSE MatchOne(rs[i], event_type, scope_type, scope_id)
         \o MatchLoop(rs, i + 1, event_type, scope_type, scope_id)

get_matching_rules_from_config(cfg, event_type, scope_type, scope_id) ==
    MatchLoop(cfg, 1, event_type, scope_type, scope_id)

----------------------------------------------------------------------------
(* WebhookForwarder._forward_to_webhook_sync *)

Response(code) == [kind |-> "response", status_code |-> code]
Raises(exc) == [kind |-> "raise", exc |-> exc]

\* What session.post can do on an open client.
Transport ==
    {Response(200), Response(204), Response(500),
     Raises("ConnectError"), Raises("ReadTimeout")}

\* The keys of the envelope that the payload starts with.
EnvelopeKeys == {"event_type", "rule_name", "timestamp"}

Envelope(rule_name, event_type) ==
    [event_type |-> PyStr(event_type), rule_name |-> rule_name,
     timestamp |-> PyStr(DispatchTime)]

\* A dict display {**a, **b}: the keys of both, a later value replaces an
\* earlier one.  A key holding Absent is a key the dict does not have.
DictMerge(a, b) ==
    [k \in DOMAIN a \cup DOMAIN b |->
        IF k \in DOMAIN b /\ b[k] # Absent THEN b[k]
        ELSE IF k \in DOMAIN a THEN a[k]
        ELSE Absent]

\* The payload dict: the envelope keys first, then **data.
Payload(rule_name, event_type, data) ==
    DictMerge(Envelope(rule_name, event_type), data)

\* One call: whether session.post was called, with which payload, what it
\* did, and the level of the record the call logged.
forward_to_webhook_sync(sess, webhook_url, rule_name, event_type, data, outcome) ==
    LET entry(post, payload, response, level) ==
            [webhook_url |-> webhook_url, rule_name |-> rule_name,
             event_type |-> event_type, post |-> post, payload |-> payload,
             response |-> response, level |-> level]
        payload == Payload(rule_name, event_type, data)
    IN  IF sess = "none" THEN entry(FALSE, None, None, "error")
        ELSE IF sess = "closed"
        THEN entry(TRUE, payload, Raises("RuntimeError"), "error")
        ELSE IF outcome.kind = "raise" THEN entry(TRUE, payload, outcome, "error")
        ELSE IF outcome.status_code \in {200, 204}
        THEN entry(TRUE, payload, outcome, "info")
        ELSE entry(TRUE, payload, outcome, "warning")

----------------------------------------------------------------------------
(* WebhookForwarder.handle_event *)

\* DeriveScope looking at channel_id before guild_id.
DeriveScope_ChannelFirst(data) ==
    IF data.channel_id # Absent
    THEN [scope_type |-> PyStr("channel"), scope_id |-> PyStr(Str(data.channel_id))]
    ELSE IF data.guild_id # Absent /\ Truthy(data.guild_id)
    THEN [scope_type |-> PyStr("guild"), scope_id |-> PyStr(Str(data.guild_id))]
    ELSE NoScope

\* The scope handle_event extracts from the event data.
DeriveScope(data) ==
    IF data.guild_id # Absent /\ Truthy(data.guild_id)
    THEN [scope_type |-> PyStr("guild"), scope_id |-> PyStr(Str(data.guild_id))]
    ELSE IF data.channel_id # Absent
    THEN [scope_type |-> PyStr("channel"), scope_id |-> PyStr(Str(data.channel_id))]
    ELSE NoScope

\* ForwardLoop in which an exception of session.post leaves the loop, as it
\* would if _forward_to_webhook_sync did not catch it.
RECURSIVE ForwardLoop_RaiseEscapes(_, _, _, _, _, _)
ForwardLoop_RaiseEscapes(rs, i, sess, event_type, data, oc) ==
    IF i > Len(rs) THEN [deliveries |-> <<>>, raised |-> FALSE]
    ELSE IF rs[i].name = Absent \/ rs[i].webhook_url = Absent
    THEN [deliveries |-> <<>>, raised |-> TRUE]
    ELSE LET this == forward_to_webhook_sync(sess, rs[i].webhook_url, rs[i].name,
                                             event_type, data, oc[i])
         IN  IF this.post /\ this.response.kind = "raise"
             THEN [deliveries |-> <<this>>, raised |-> TRUE]
             ELSE LET rest ==
                          ForwardLoop_RaiseEscapes(rs, i + 1, sess, event_type, data, oc)
                  IN  [deliveries |-> <<this>> \o rest.deliveries,
                       raised |-> rest.raised]

\* The `for idx, rule in enumerate(rules)` loop from rule i on: the calls it
\* makes, and whether rule['name'] or rule["webhook_url"] raised KeyError.
RECURSIVE ForwardLoop(_, _, _, _, _, _)
ForwardLoop(rs, i, sess, event_type, data, oc) ==
    IF i > Len(rs) THEN [deliveries |-> <<>>, raised |-> FALSE]
    ELSE IF rs[i].name = Absent \/ rs[i].webhook_url = Absent
    THEN [deliveries |-> <<>>, raised |-> TRUE]
    ELSE LET rest == ForwardLoop(rs, i + 1, sess, event_type, data, oc)
             this == forward_to_webhook_sync(sess, rs[i].webhook_url, rs[i].name,
                                             event_type, data, oc[i])
         IN  [deliveries |-> <<this>> \o rest.deliveries, raised |-> rest.raised]

\* HandleOutcome without the except clause: the KeyError reaches the caller.
HandleOutcome_NoExcept(raised) == IF raised THEN "raised" ELSE "returned"

\* How the try statement of handle_event ends: an exception raised in its
\* body is caught and logged, and the call returns.
HandleOutcome(raised) == IF raised THEN "caught" ELSE "returned"

\* One call of handle_event, from its first line to its return; oc[i] is
\* what the transport does with the POST for the i-th matching rule.
handle_event(event_type, data) ==
    /\ result = "idle"
    /\ LET sc == DeriveScope(data)
           matching == get_matching_rules_from_config(
                           config, event_type, sc.scope_type, sc.scope_id)
       IN  \E oc \in [1..Len(matching) ->
                        IF session = "open" THEN Transport ELSE {Response(200)}] :
             LET loop == ForwardLoop(matching, 1, session, event_type, data, oc)
             IN  /\ event' = [event_type |-> event_type, data |-> data]
                 /\ scope' = sc
                 /\ rules' = matching
                 /\ deliveries' = loop.deliveries
                 /\ result' = HandleOutcome(loop.raised)
    /\ UNCHANGED <<config, session, outsideForwarder>>

\* The gateway callback that awaited handle_event goes on: the call's frame
\* is gone and the next occurrence can be handled.
EventDone ==
    /\ result # "idle"
    /\ event' = NoEvent
    /\ scope' = NoScope
    /\ rules' = <<>>
    /\ deliveries' = <<>>
    /\ result' = "idle"
    /\ UNCHANGED <<config, session, outsideForwarder>>

\* start and stop are awaited by DiscordListener.initialize and
\* DiscordListener.stop; a handle_event call is one step here, so they take
\* effect between two calls.
WebhookForwarder_start ==
    /\ result = "idle"
    /\ session' = "open"
    /\ UNCHANGED <<config, event, scope, rules, deliveries, result>>
    /\ UNCHANGED outsideForwarder

WebhookForwarder_stop ==
    /\ result = "idle"
    /\ session' = IF session # "none" THEN "closed" ELSE session
    /\ UNCHANGED <<config, event, scope, rules, deliveries, result>>
    /\ UNCHANGED outsideForwarder

----------------------------------------------------------------------------
(* The GUI's rule list *)

\* toggle_rule: loads config.yaml, sets the rule's enabled field and saves
\* the file.  An index out of range raises, which the function reports.
toggle_rule(idx, enabled) ==
    /\ result = "idle"
    /\ idx + 1 \in 1..Len(yaml_rules)
    /\ yaml_rules' = [yaml_rules EXCEPT ![idx + 1].enabled = PyBool(enabled)]
    /\ UNCHANGED outsideConfigFile

\* delete_rule: loads config.yaml, deletes the rule and saves the file.
delete_rule(idx) ==
    /\ result = "idle"
    /\ idx + 1 \in 1..Len(yaml_rules)
    /\ yaml_rules' = [k \in 1..(Len(yaml_rules) - 1) |->
                        IF k < idx + 1 THEN yaml_rules[k] ELSE yaml_rules[k + 1]]
    /\ UNCHANGED outsideConfigFile

----------------------------------------------------------------------------
(* ListenerManager *)

\* The pids the operating system hands out.
Pids == 1..NumPids

\* What the process table holds for a pid:
\*   "free"    no process has the pid;
\*   "child"   a listener that runs and is a child of the GUI process;
\*   "zombie"  a listener that has exited and that the GUI process, its
\*             parent, has not waited for: /proc/<pid> is still there;
\*   "orphan"  a listener that runs and whose GUI process is gone;
\*   "other"   a process that is not a listener (the pid was used again).
ProcStates == {"free", "child", "zombie", "orphan", "other"}

\* The range of the for loop of stop that waits for the exit.
PollLimit == 50

\* No ListenerManager call has been made since the last step of a process.
NoCall ==
    [op |-> "none", ret |-> None, case |-> "", pid |-> None,
     signals |-> <<>>, polls |-> 0, before |-> None, first |-> None,
     arg |-> None]

\* The record of a call: what it returned, which of its return statements
\* it took, the pid it launched or signalled, the signals it sent in
\* order, the number of liveness polls of its waiting loop, and the handle,
\* the PID file and the process table it found.  For a restart, first is
\* what its stop returned and left, as its start found it after the settle
\* second.
Call(op, ret, case, pid, signals, polls) ==
    [op |-> op, ret |-> PyBool(ret), case |-> case, pid |-> pid,
     signals |-> signals, polls |-> polls,
     before |-> [process |-> process, pid_file |-> pid_file, procs |-> procs],
     first |-> None, arg |-> None]

\* A Popen object.
Handle(pid) == [pid |-> pid]

\* A restart has made its stop and sleeps its settle second.
Settling == call.op = "restart_stop"

\* int(pid_str): the number whose decimal text is the string; a text
\* that is no number raises ValueError.
ParseInt(text) ==
    IF \E n \in DOMAIN NumberTexts : NumberTexts[n] = text
    THEN PyInt(CHOOSE n \in DOMAIN NumberTexts : NumberTexts[n] = text)
    ELSE Raises("ValueError")

\* _load_pid: the pid in the file; None when there is no file, when it is
\* empty and when int() raises.
load_pid(file) ==
    IF file = Absent THEN None
    ELSE IF file.v = "" THEN None
    ELSE IF ParseInt(file.v) = Raises("ValueError") THEN None
    ELSE ParseInt(file.v)

\* _save_pid: the file holds str(pid).
save_pid(pid) == PyStr(Str(PyInt(pid)))

\* _is_process_running: /proc/<pid> exists for every process, a zombie
\* included; otherwise os.kill(pid, 0) raises ProcessLookupError.
is_process_running(table, pid) ==
    pid \in DOMAIN table /\ table[pid] # "free"

\* Popen.poll(): None while the child runs; once it has exited, poll waits
\* for it (the zombie is gone) and gives its return code.
PollIsNone(table, handle) == table[handle.pid] = "child"

AfterPoll(table, handle) ==
    IF table[handle.pid] = "zombie"
    THEN [table EXCEPT ![handle.pid] = "free"]
    ELSE table

\* is_running that looks at the handle only.
is_running_HandleOnly(proc, file, table) ==
    LET alive == proc # None /\ PollIsNone(table, proc)
        table1 == IF proc # None THEN AfterPoll(table, proc) ELSE table
    IN  [ret |-> alive, process |-> IF alive THEN proc ELSE None,
         pid_file |-> file, procs |-> table1]

\* is_running that leaves a stale PID file where it is.
is_running_KeepsStale(proc, file, table) ==
    LET alive == proc # None /\ PollIsNone(table, proc)
        table1 == IF proc # None THEN AfterPoll(table, proc) ELSE table
        pid == load_pid(file)
    IN  IF alive
        THEN [ret |-> TRUE, process |-> proc, pid_file |-> file, procs |-> table]
        ELSE [ret |-> pid # None /\ is_process_running(table1, pid.v),
              process |-> None, pid_file |-> file, procs |-> table1]

\* is_running: what it returns, and the handle, the PID file and the
\* process table it leaves.
is_running(proc, file, table) ==
    LET alive == proc # None /\ PollIsNone(table, proc)
        table1 == IF proc # None THEN AfterPoll(table, proc) ELSE table
        pid == load_pid(file)
    IN  IF alive
        THEN [ret |-> TRUE, process |-> proc, pid_file |-> file, procs |-> table]
        ELSE IF pid # None /\ is_process_running(table1, pid.v)
        THEN [ret |-> TRUE, process |-> None, pid_file |-> file, procs |-> table1]
        ELSE IF pid # None
        THEN [ret |-> FALSE, process |-> None, pid_file |-> Absent, procs |-> table1]
        ELSE [ret |-> FALSE, process |-> None, pid_file |-> file, procs |-> table1]

\* One call of is_running by the GUI.
ListenerManager_is_running ==
    LET r == is_running(process, pid_file, procs)
    IN  /\ ~Settling
        /\ process' = r.process
        /\ pid_file' = r.pid_file
        /\ procs' = r.procs
        /\ call' = Call("is_running", r.ret, "", None, <<>>, 0)
        /\ UNCHANGED outsideSupervisor

\* subprocess.Popen first waits for the exited children whose Popen object
\* was dropped while they ran (subprocess._cleanup).
Cleanup(table) ==
    [p \in DOMAIN table |-> IF table[p] = "zombie" THEN "free" ELSE table[p]]

\* What happens to the launch: Popen raises; the child runs at the end of
\* the settle second; the child has exited by then.
LaunchOutcomes == {"raises", "runs", "exited"}

\* Launch that reports success without writing the PID file.
Launch_NoSave(file, table, launch, p) ==
    IF launch = "raises"
    THEN [ret |-> FALSE, case |-> "launch_raised", pid |-> None,
          process |-> None, pid_file |-> file, procs |-> table]
    ELSE LET born == [table EXCEPT
                         ![p] = IF launch = "runs" THEN "child" ELSE "zombie"]
             r == is_running(Handle(p), file, born)
         IN  [ret |-> r.ret, case |-> IF r.ret THEN "started" ELSE "not_alive",
              pid |-> PyInt(p), process |-> r.process, pid_file |-> r.pid_file,
              procs |-> r.procs]

\* The part of start after the two refusals: Popen, the settle second and
\* the liveness check, for the pid the new child gets.
Launch(file, table, launch, p) ==
    IF launch = "raises"
    THEN [ret |-> FALSE, case |-> "launch_raised", pid |-> None,
          process |-> None, pid_file |-> file, procs |-> table]
    ELSE LET born == [table EXCEPT
                         ![p] = IF launch = "runs" THEN "child" ELSE "zombie"]
             r == is_running(Handle(p), file, born)
         IN  IF r.ret
             THEN [ret |-> TRUE, case |-> "started", pid |-> PyInt(r.process.pid),
                   process |-> r.process, pid_file |-> save_pid(r.process.pid),
                   procs |-> r.procs]
             ELSE [ret |-> FALSE, case |-> "not_alive", pid |-> PyInt(p),
                   process |-> r.process, pid_file |-> r.pid_file,
                   procs |-> r.procs]

\* start that writes the PID file before the liveness check.
start_SavesFirst(proc, file, table, script_exists, launch, p) ==
    LET r == is_running(proc, file, table)
        l == Launch(r.pid_file, Cleanup(r.procs), launch, p)
    IN  IF r.ret
        THEN [ret |-> FALSE, case |-> "running", pid |-> None,
              process |-> r.process, pid_file |-> r.pid_file, procs |-> r.procs]
        ELSE IF ~script_exists
        THEN [ret |-> FALSE, case |-> "no_script", pid |-> None,
              process |-> r.process, pid_file |-> r.pid_file, procs |-> r.procs]
        ELSE IF l.case = "not_alive"
        THEN [l EXCEPT !.pid_file = save_pid(p)]
        ELSE l

\* start: what it returns, and the handle, the PID file and the process
\* table it leaves.  script_exists is listener_script.exists(), launch what
\* happens to the launch, p the pid the child gets.
start(proc, file, table, script_exists, launch, p) ==
    LET r == is_running(proc, file, table)
    IN  IF r.ret
        THEN [ret |-> FALSE, case |-> "running", pid |-> None,
              process |-> r.process, pid_file |-> r.pid_file, procs |-> r.procs]
        ELSE IF ~script_exists
        THEN [ret |-> FALSE, case |-> "no_script", pid |-> None,
              process |-> r.process, pid_file |-> r.pid_file, procs |-> r.procs]
        ELSE Launch(r.pid_file, Cleanup(r.procs), launch, p)

\* One call of start by the GUI.  The child gets a pid that is free once
\* Popen has waited for the dropped children; with no free pid fork fails
\* and Popen raises.
ListenerManager_start ==
    \E script_exists \in BOOLEAN, launch \in LaunchOutcomes, p \in Pids :
        /\ ~Settling
        /\ launch # "raises" => Cleanup(is_running(process, pid_file, procs).procs)[p] = "free"
        /\ LET r == start(process, pid_file, procs, script_exists, launch, p)
           IN  /\ process' = r.process
               /\ pid_file' = r.pid_file
               /\ procs' = r.procs
               /\ call' = Call("start", r.ret, r.case, r.pid, <<>>, 0)
        /\ UNCHANGED outsideSupervisor

SIGTERM(pid) == [sig |-> "SIGTERM", pgid |-> pid]
SIGKILL(pid) == [sig |-> "SIGKILL", pgid |-> pid]

\* How the target takes the SIGTERM of stop:
\*   "gone"    it went away after is_running saw it: os.getpgid raises
\*             ProcessLookupError;
\*   "denied"  it belongs to another user: os.killpg raises PermissionError;
\*   "exits"   it exits after some polls of the waiting loop, or after
\*             the last one and before the SIGKILL;
\*   "ignores" it is still there when the SIGKILL is sent.
Reactions == {"gone", "denied", "exits", "ignores"}

\* The number of polls that still see a process that exits on SIGTERM.
ExitTimes == {0, 1, PollLimit - 1, PollLimit}

\* The reactions a process of this kind can show.  A child of the GUI
\* process cannot go away unnoticed: it stays in the table as a zombie.
CanReact(kind, reaction) ==
    \/ reaction \in {"exits", "ignores"}
    \/ reaction = "gone" /\ kind \in {"orphan", "other"}
    \/ reaction = "denied" /\ kind = "other"

\* WaitLoop that gives up after one poll.
WaitLoop_OnePoll(k, sees) ==
    IF k >= sees THEN [polls |-> k + 1, exited |-> TRUE]
    ELSE [polls |-> k + 1, exited |-> FALSE]

\* The waiting loop of stop after k polls, for a process that sees polls
\* come and go before it is gone: the polls made and whether one of them
\* found the process gone.
RECURSIVE WaitLoop(_, _)
WaitLoop(k, sees) ==
    IF k = PollLimit THEN [polls |-> k, exited |-> FALSE]
    ELSE IF k >= sees THEN [polls |-> k + 1, exited |-> TRUE]
    ELSE WaitLoop(k + 1, sees)

\* The result of stop: the PID file is removed and the handle dropped.
Stopped(ret, case, pid, signals, polls, table) ==
    [ret |-> ret, case |-> case, pid |-> PyInt(pid), signals |-> signals,
     polls |-> polls, process |-> None, pid_file |-> Absent, procs |-> table]

\* Terminate that keeps the PID file when it had to send SIGKILL.
Terminate_ForcedKeepsRecord(proc, file, table, pid, reaction, seen, reaped) ==
    LET gone == [table EXCEPT ![pid] = "free"]
        w == WaitLoop(0, IF reaction = "exits" /\ table[pid] \in {"orphan", "other"}
                         THEN seen ELSE PollLimit)
    IN  IF reaction = "gone" THEN Stopped(TRUE, "gone", pid, <<>>, 0, gone)
        ELSE IF reaction = "denied" THEN Stopped(FALSE, "error", pid, <<>>, 0, table)
        ELSE IF w.exited
        THEN Stopped(TRUE, "graceful", pid, <<SIGTERM(pid)>>, w.polls, gone)
        ELSE [Stopped(TRUE, "forced", pid, <<SIGTERM(pid), SIGKILL(pid)>>,
                      w.polls, gone) EXCEPT !.pid_file = file]

\* Terminate that takes a target that is already gone for a failure.
Terminate_GoneIsError(proc, file, table, pid, reaction, seen, reaped) ==
    LET gone == [table EXCEPT ![pid] = "free"]
        w == WaitLoop(0, IF reaction = "exits" /\ table[pid] \in {"orphan", "other"}
                         THEN seen ELSE PollLimit)
    IN  IF reaction = "gone" THEN Stopped(FALSE, "gone", pid, <<>>, 0, gone)
        ELSE IF reaction = "denied" THEN Stopped(FALSE, "error", pid, <<>>, 0, table)
        ELSE IF w.exited
        THEN Stopped(TRUE, "graceful", pid, <<SIGTERM(pid)>>, w.polls, gone)
        ELSE Stopped(TRUE, "forced", pid, <<SIGTERM(pid), SIGKILL(pid)>>,
                     w.polls, gone)

\* The signalling part of stop, for the pid it has found.  A child of the
\* GUI process that exits stays in /proc as a zombie, so every poll sees
\* it and both signals reach it; dropping the handle waits for it
\* (Popen.__del__), at once when it exited on SIGTERM, and when it is
\* killed only if it is dead by then.  Another process that exits after the
\* last poll is gone when the SIGKILL is to be sent: os.getpgid raises
\* ProcessLookupError, which stop passes over.
Terminate(proc, file, table, pid, reaction, seen, reaped) ==
    LET kind == table[pid]
        gone == [table EXCEPT ![pid] = "free"]
        own == kind \in {"child", "zombie"}
        w == WaitLoop(0, IF reaction = "exits" /\ ~own THEN seen ELSE PollLimit)
        dead == IF ~own THEN gone
                ELSE IF proc # None /\ (reaction = "exits" \/ reaped) THEN gone
                ELSE [table EXCEPT ![pid] = "zombie"]
    IN  IF reaction = "gone" THEN Stopped(TRUE, "gone", pid, <<>>, 0, gone)
        ELSE IF reaction = "denied" THEN Stopped(FALSE, "error", pid, <<>>, 0, table)
        ELSE IF w.exited
        THEN Stopped(TRUE, "graceful", pid, <<SIGTERM(pid)>>, w.polls, gone)
        ELSE IF reaction = "exits" /\ ~own
        THEN Stopped(TRUE, "forced_gone", pid, <<SIGTERM(pid)>>, w.polls, gone)
        ELSE Stopped(TRUE, "forced", pid, <<SIGTERM(pid), SIGKILL(pid)>>,
                     w.polls, dead)

\* StopPid that knows the handle's pid only.
StopPid_HandleOnly(proc, file) ==
    IF proc # None THEN PyInt(proc.pid) ELSE None

\* The pid stop works on: the handle's, else the PID file's.
StopPid(proc, file) ==
    IF proc # None THEN PyInt(proc.pid) ELSE load_pid(file)

\* stop that does not ask is_running first.
stop_NoRunningCheck(proc, file, table, reaction, seen, reaped) ==
    LET pid == StopPid(proc, file)
    IN  IF pid = None
        THEN [ret |-> FALSE, case |-> "no_pid", pid |-> None, signals |-> <<>>,
              polls |-> 0, process |-> proc, pid_file |-> file, procs |-> table]
        ELSE IF table[pid.v] = "free"
        THEN Stopped(TRUE, "gone", pid.v, <<>>, 0, table)
        ELSE Terminate(proc, file, table, pid.v, reaction, seen, reaped)

\* stop: what it returns, the signals it sends, and the handle, the PID
\* file and the process table it leaves.
stop(proc, file, table, reaction, seen, reaped) ==
    LET r == is_running(proc, file, table)
        pid == StopPid(r.process, r.pid_file)
    IN  IF ~r.ret
        THEN [ret |-> FALSE, case |-> "not_running", pid |-> None,
              signals |-> <<>>, polls |-> 0,
              process |-> r.process, pid_file |-> r.pid_file, procs |-> r.procs]
        ELSE IF pid = None
        THEN [ret |-> FALSE, case |-> "no_pid", pid |-> None,
              signals |-> <<>>, polls |-> 0,
              process |-> r.process, pid_file |-> r.pid_file, procs |-> r.procs]
        ELSE Terminate(r.process, r.pid_file, r.procs, pid.v, reaction, seen, reaped)

\* The process stop will signal, if it goes on to signal.
StopTarget ==
    LET r == is_running(process, pid_file, procs)
        pid == StopPid(r.process, r.pid_file)
    IN  IF r.ret /\ pid # None THEN r.procs[pid.v] ELSE "free"

\* One call of stop by the GUI.
ListenerManager_stop ==
    \E reaction \in Reactions, seen \in ExitTimes, reaped \in BOOLEAN :
        /\ ~Settling
        /\ CanReact(StopTarget, reaction)
        /\ LET r == stop(process, pid_file, procs, reaction, seen, reaped)
           IN  /\ process' = r.process
               /\ pid_file' = r.pid_file
               /\ procs' = r.procs
               /\ call' = Call("stop", r.ret, r.case, r.pid, r.signals, r.polls)
        /\ UNCHANGED outsideSupervisor

\* restart that succeeds only when both steps succeed.
restart_return_NeedsBoth(stop_ret, start_ret) == stop_ret /\ start_ret

\* What restart returns: what its start step returned.
restart_return(stop_ret, start_ret) == start_ret

\* The first part of restart: stop.  The call is then in its settle second,
\* in which the processes go on.
ListenerManager_restart_stop ==
    \E reaction \in Reactions, seen \in ExitTimes, reaped \in BOOLEAN :
        /\ ~Settling
        /\ CanReact(StopTarget, reaction)
        /\ LET r == stop(process, pid_file, procs, reaction, seen, reaped)
           IN  /\ process' = r.process
               /\ pid_file' = r.pid_file
               /\ procs' = r.procs
               /\ call' = Call("restart_stop", r.ret, r.case, r.pid, r.signals, r.polls)
        /\ UNCHANGED outsideSupervisor

\* The second part of restart, after the settle second: start, whose
\* result restart returns.
ListenerManager_restart_start ==
    \E script_exists \in BOOLEAN, launch \in LaunchOutcomes, p \in Pids :
        /\ Settling
        /\ launch # "raises" => Cleanup(is_running(process, pid_file, procs).procs)[p] = "free"
        /\ LET r == start(process, pid_file, procs, script_exists, launch, p)
           IN  /\ process' = r.process
               /\ pid_file' = r.pid_file
               /\ procs' = r.procs
               /\ call' = [op |-> "restart",
                           ret |-> PyBool(restart_return(call.ret.v, r.ret)),
                           case |-> r.case, pid |-> r.pid,
                           signals |-> call.signals, polls |-> call.polls,
                           before |-> call.before,
                           first |-> [ret |-> call.ret, case |-> call.case,
                                      process |-> process, pid_file |-> pid_file,
                                      procs |-> procs],
                           arg |-> None]
        /\ UNCHANGED outsideSupervisor

\* The call record after a step of a process: a restart in its settle
\* second goes on, any other call is over.
AfterStep == IF Settling THEN call ELSE NoCall

\* The listener process exits by itself (a lost connection it gives up on,
\* a bad token, a signal from outside).  A child is left as a zombie; an
\* orphan is waited for by init.
ListenerExit(p) ==
    /\ procs[p] \in {"child", "orphan"}
    /\ procs' = [procs EXCEPT ![p] = IF procs[p] = "child" THEN "zombie" ELSE "free"]
    /\ call' = AfterStep
    /\ UNCHANGED <<outsideSupervisor, process, pid_file>>

\* A process that is not a listener gets the pid, or exits.
OtherStarts(p) ==
    /\ procs[p] = "free"
    /\ procs' = [procs EXCEPT ![p] = "other"]
    /\ call' = AfterStep
    /\ UNCHANGED <<outsideSupervisor, process, pid_file>>

OtherExits(p) ==
    /\ procs[p] = "other"
    /\ procs' = [procs EXCEPT ![p] = "free"]
    /\ call' = AfterStep
    /\ UNCHANGED <<outsideSupervisor, process, pid_file>>

\* The GUI process ends and is started again: init_app makes a new
\* ListenerManager, without a handle.  The listeners it had started run on
\* as orphans, and init waits for the ones that had exited.
GuiRestart ==
    /\ process' = None
    /\ procs' = [p \in Pids |->
                    IF procs[p] = "child" THEN "orphan"
                    ELSE IF procs[p] = "zombie" THEN "free"
                    ELSE procs[p]]
    /\ call' = NoCall
    /\ UNCHANGED <<outsideSupervisor, pid_file>>

\* A new browser session: init_app makes a new ListenerManager in the same
\* GUI process.  The handle of the old one is dropped: Popen.__del__ waits
\* for the child if it has exited, and keeps it for a later wait if not.
NewSession ==
    /\ process' = None
    /\ procs' = IF process # None THEN AfterPoll(procs, process) ELSE procs
    /\ call' = NoCall
    /\ UNCHANGED <<outsideSupervisor, pid_file>>

\* get_status that asks without touching the handle and the PID file.
get_status_ReadOnly(proc, file, table) ==
    LET r == is_running(proc, file, table)
    IN  [is_running |-> r.ret,
         pid |-> IF r.ret THEN StopPid(r.process, r.pid_file) ELSE None,
         process |-> proc, pid_file |-> file, procs |-> table]

\* get_status: is_running, and the pid of the handle, else of the PID
\* file, when it is true.
get_status(proc, file, table) ==
    LET r == is_running(proc, file, table)
    IN  [is_running |-> r.ret,
         pid |-> IF r.ret THEN StopPid(r.process, r.pid_file) ELSE None,
         process |-> r.process, pid_file |-> r.pid_file, procs |-> r.procs]

\* One call of get_status by the GUI.
ListenerManager_get_status ==
    LET r == get_status(process, pid_file, procs)
    IN  /\ ~Settling
        /\ process' = r.process
        /\ pid_file' = r.pid_file
        /\ procs' = r.procs
        /\ call' = Call("get_status", r.is_running, "", r.pid, <<>>, 0)
        /\ UNCHANGED outsideSupervisor

\* The lines the listener's log handler writes, with their line ends.
LogLines == {"INFO started\n", "INFO event\n", "ERROR failed\n"}

RECURSIVE LogsOfLength(_)
LogsOfLength(n) ==
    IF n = 0 THEN {<<>>}
    ELSE {Append(l, x) : l \in LogsOfLength(n - 1), x \in LogLines}

\* The log files: none, or up to MaxLines lines.
Logs == {Absent} \cup {PyList(l) : l \in UNION {LogsOfLength(n) : n \in 0..MaxLines}}

\* all_lines[begin:] of Python, for a begin that may be negative.
SliceFrom(l, begin) ==
    LET from == IF begin < 0 THEN (IF Len(l) + begin < 0 THEN 0 ELSE Len(l) + begin)
                ELSE IF begin > Len(l) THEN Len(l) ELSE begin
    IN  [k \in 1..(Len(l) - from) |-> l[from + k]]

\* list.reverse()
Reversed(l) == [k \in 1..Len(l) |-> l[Len(l) + 1 - k]]

\* "".join(l)
RECURSIVE Join(_)
Join(l) == IF l = <<>> THEN "" ELSE Head(l) \o Join(Tail(l))

\* get_logs: all_lines[-lines:], reversed and joined.
get_logs(file, lines) ==
    IF file = Absent THEN PyStr("No logs available")
    ELSE PyStr(Join(Reversed(SliceFrom(file.v, 0 - lines))))

\* One call of get_logs by the GUI.
ListenerManager_get_logs(lines) ==
    /\ ~Settling
    /\ call' = [Call("get_logs", FALSE, "", None, <<>>, 0)
                   EXCEPT !.ret = get_logs(log_file, lines), !.arg = PyInt(lines)]
    /\ UNCHANGED <<outsideSupervisor, process, pid_file, procs>>

\* The listener's log handler writes a line; the file is made if needed.
LogWrite(line) ==
    /\ log_file # Absent => Len(log_file.v) < MaxLines
    /\ log_file' = IF log_file = Absent THEN PyList(<<line>>)
                   ELSE PyList(Append(log_file.v, line))
    /\ call' = NoCall
    /\ UNCHANGED <<outsideLogFile, process, pid_file, procs>>

\* ListenerManager.__init__ on a machine where no listener was ever started.
ListenerManager_init ==
    /\ process = None
    /\ pid_file = Absent
    /\ procs = [p \in Pids |-> "free"]
    /\ call = NoCall

----------------------------------------------------------------------------
(* The event callbacks of the bot                                          *)
(*                                                                         *)
(* _register_event_handlers gives the bot one callback for each of six     *)
(* gateway events.  A callback builds the event data and awaits the        *)
(* registered event handler, inside a try block that logs every exception. *)

GatewayTypes ==
    {"message", "member_join", "member_remove", "reaction_add",
     "channel_create", "channel_delete"}

\* What the gateway hands to a callback: whether the author, user, member
\* is a bot account, the guild (None for a direct message), whether
\* building the data raises, and the event handler: not set, returning or
\* raising.
Occurrences ==
    {o \in [type : GatewayTypes, bot : BOOLEAN,
            guild : {None, PyInt(42), PyInt(43)},
            build : {"ok", "raises"},
            event_handler : {"none", "returns", "raises"}] :
        o.guild = None => o.type \in {"message", "reaction_add"}}

NoCallback ==
    [occ |-> None, invoked |-> 0, event_type |-> None, data |-> None,
     logged |-> FALSE, propagated |-> FALSE]

\* _build_message_data, _build_member_data, _build_reaction_data and
\* _build_channel_data: the keys handle_event reads.
build_data(o) ==
    [guild_id |-> o.guild,
     channel_id |-> IF o.type \in {"member_join", "member_remove"}
                    THEN Absent ELSE PyInt(42),
     timestamp |-> IF o.type = "message" THEN PyStr(CreatedAt) ELSE Absent]

\* The body the six callbacks share: 'if self.event_handler' (with
\* 'and not ....bot' where skips_bots), then the try block around the
\* build and the awaited handler; logs_first is the debug line on_message
\* writes before its condition.
Callback_NoTry(o, skips_bots, logs_first) ==
    IF o.event_handler = "none" \/ (skips_bots /\ o.bot)
    THEN [NoCallback EXCEPT !.occ = o, !.logged = logs_first]
    ELSE IF o.build = "raises"
    THEN [NoCallback EXCEPT !.occ = o, !.logged = logs_first, !.propagated = TRUE]
    ELSE [occ |-> o, invoked |-> 1, event_type |-> PyStr(o.type),
          data |-> build_data(o), logged |-> logs_first,
          propagated |-> o.event_handler = "raises"]

Callback(o, skips_bots, logs_first) ==
    IF o.event_handler = "none" \/ (skips_bots /\ o.bot)
    THEN [NoCallback EXCEPT !.occ = o, !.logged = logs_first]
    ELSE IF o.build = "raises"
    THEN [NoCallback EXCEPT !.occ = o, !.logged = TRUE]
    ELSE [occ |-> o, invoked |-> 1, event_type |-> PyStr(o.type),
          data |-> build_data(o),
          logged |-> logs_first \/ o.event_handler = "raises",
          propagated |-> FALSE]

on_message(o) ==
    /\ o.type = "message"
    /\ callback' = Callback(o, TRUE, TRUE)
    /\ UNCHANGED outsideGateway

on_member_join(o) ==
    /\ o.type = "member_join"
    /\ callback' = Callback(o, FALSE, FALSE)
    /\ UNCHANGED outsideGateway

on_member_remove(o) ==
    /\ o.type = "member_remove"
    /\ callback' = Callback(o, FALSE, FALSE)
    /\ UNCHANGED outsideGateway

on_reaction_add_AnyUser(o) ==
    /\ o.type = "reaction_add"
    /\ callback' = Callback(o, FALSE, FALSE)
    /\ UNCHANGED outsideGateway

on_reaction_add(o) ==
    /\ o.type = "reaction_add"
    /\ callback' = Callback(o, TRUE, FALSE)
    /\ UNCHANGED outsideGateway

on_guild_channel_create(o) ==
    /\ o.type = "channel_create"
    /\ callback' = Callback(o, FALSE, FALSE)
    /\ UNCHANGED outsideGateway

on_guild_channel_delete(o) ==
    /\ o.type = "channel_delete"
    /\ callback' = Callback(o, FALSE, FALSE)
    /\ UNCHANGED outsideGateway

----------------------------------------------------------------------------
(* BotManager and the listener's supervision loop                          *)
(*                                                                         *)
(* The listener's main thread runs DiscordListener.start: it starts the    *)
(* bot, then once per second asks BotManager.is_running and restarts the   *)
(* bot if it is not.  BotManager.start runs the bot in a worker thread,    *)
(* which writes BotManager.bot and BotManager._is_running as well.  The    *)
(* threads interleave between statements; the worker's lines 267 to 271    *)
(* and one evaluation of is_running are taken as one step.                 *)

ThreadIds == 1..MaxThreads

\* discord.ext.commands.Bot made by the worker thread w.
Bot(w) == [t |-> "bot", id |-> w]

\* No such thread: never started, or ended.
NoThread == [pc |-> "none", closed |-> FALSE]

ThreadPcs == {"none", "create", "run", "finally_close", "reset_flag", "reset_bot"}

\* The calls the main thread makes, by what they are made for.
NoEntry == [bot |-> None, is_running |-> FALSE]
Ctx(why) == [why |-> why, entry |-> NoEntry, close |-> "none", ret |-> "none"]

Alive(w) == threads[w].pc # "none"

\* bot.is_closed() of a bot value.
is_closed(ths, b) == ths[b.id].closed

\* BotManager.is_running.
BotManager_is_running(b, ths) == b # None /\ ~is_closed(ths, b)

\* BotManager.__init__, and main() about to call DiscordListener.start.
BotManager_init ==
    /\ bot = None
    /\ bot_is_running = FALSE
    /\ threads = [w \in ThreadIds |-> NoThread]
    /\ main_pc = "initialize"
    /\ main_ctx = Ctx("initial")
    /\ exit_status = None
    /\ callback = NoCallback

\* An exception leaves BotManager.start or BotManager.restart.  Inside the
\* supervision loop it is logged and the loop is left with running = False,
\* so that DiscordListener.start returns; before the loop it is raised again
\* and main() calls sys.exit(1).  Either way main()'s finally calls
\* DiscordListener.stop.
RaisedTo(why) == IF why = "restart" THEN "halted" ELSE "fatal"

\* The exit status main() ends with after DiscordListener.stop.
ExitStatus(why) == IF why = "fatal" THEN PyInt(1) ELSE PyInt(0)

\* The bot section of config.yaml: the token and the enabled key, each
\* possibly missing.
BotSections ==
    [token : {Absent, None, PyStr(""), PyStr("token")},
     enabled : {Absent, PyBool(TRUE), PyBool(FALSE)}]

\* The bot section of a listener that runs.
GoodBotSection == [token |-> PyStr("token"), enabled |-> PyBool(TRUE)]

\* Config.get_bot_token and Config.is_bot_enabled.
get_bot_token(section) == Get(section.token, None)

is_bot_enabled_DefaultOnly(section) == PyBool(TRUE)

is_bot_enabled(section) == Get(section.enabled, PyBool(TRUE))

\* DiscordListener.initialize refuses the configuration with ValueError.
Refused(section) ==
    ~Truthy(get_bot_token(section)) \/ ~Truthy(is_bot_enabled(section))

\* DiscordListener.start calls initialize: a refused configuration raises
\* before the BotManager is made, start raises again, main() calls
\* sys.exit(1) and its finally calls DiscordListener.stop, which finds no
\* bot_manager; otherwise the BotManager is made and start goes on to
\* bot_manager.start().
DiscordListener_initialize ==
    /\ main_pc = "initialize"
    /\ IF Refused(bot_section)
       THEN /\ main_pc' = "not_initialized"
            /\ main_ctx' = [Ctx("fatal") EXCEPT !.ret = "refused"]
       ELSE /\ main_pc' = "start_check"
            /\ UNCHANGED main_ctx
    /\ UNCHANGED <<bot, bot_is_running, threads, exit_status, outsideBot>>

\* BotManager.start, line 253: already running.
BotManager_start_check ==
    /\ main_pc = "start_check"
    /\ IF bot_is_running \/ bot # None
       THEN /\ main_pc' = "start_returned"
            /\ main_ctx' = [main_ctx EXCEPT !.ret = "already"]
       ELSE /\ main_pc' = "start_spawn"
            /\ UNCHANGED main_ctx
    /\ UNCHANGED <<bot, bot_is_running, threads, exit_status, outsideBot>>

\* BotManager.start, lines 281-282: the thread is made and started, or
\* threading raises RuntimeError.
BotManager_start_spawn ==
    /\ main_pc = "start_spawn"
    /\ \/ \E w \in ThreadIds :
            /\ ~Alive(w)
            /\ threads' = [threads EXCEPT ![w] = [pc |-> "create", closed |-> FALSE]]
            /\ main_pc' = "start_flag"
            /\ UNCHANGED main_ctx
       \/ /\ main_pc' = "stop_check"
          /\ main_ctx' = Ctx(RaisedTo(main_ctx.why))
          /\ UNCHANGED threads
    /\ UNCHANGED <<bot, bot_is_running, exit_status, outsideBot>>

\* BotManager.start, line 283.
BotManager_start_flag ==
    /\ main_pc = "start_flag"
    /\ bot_is_running' = TRUE
    /\ main_pc' = "start_returned"
    /\ main_ctx' = [main_ctx EXCEPT !.ret = "started"]
    /\ UNCHANGED <<bot, threads, exit_status, outsideBot>>

\* BotManager.start returns into DiscordListener.start: running = True and
\* the loop, or the next turn of the loop after a restart.
DiscordListener_loop ==
    /\ main_pc = "start_returned"
    /\ main_pc' = "sleep"
    /\ main_ctx' = Ctx("loop")
    /\ UNCHANGED <<bot, bot_is_running, threads, exit_status, outsideBot>>

\* await asyncio.sleep(1) in the loop.
DiscordListener_sleep ==
    /\ main_pc = "sleep"
    /\ main_pc' = "poll"
    /\ UNCHANGED <<bot, bot_is_running, threads, main_ctx, exit_status, outsideBot>>

\* The loop asks is_running, and calls BotManager.restart if it is not.
DiscordListener_poll ==
    /\ main_pc = "poll"
    /\ IF BotManager_is_running(bot, threads)
       THEN /\ main_pc' = "sleep"
            /\ UNCHANGED main_ctx
       ELSE /\ main_pc' = "stop_check"
            /\ main_ctx' = Ctx("restart")
    /\ UNCHANGED <<bot, bot_is_running, threads, exit_status, outsideBot>>

\* SIGINT or SIGTERM while the loop sleeps: main()'s finally calls
\* DiscordListener.stop.
Shutdown ==
    /\ main_pc = "sleep"
    /\ main_pc' = "stop_check"
    /\ main_ctx' = Ctx("shutdown")
    /\ UNCHANGED <<bot, bot_is_running, threads, exit_status, outsideBot>>

\* BotManager.stop, line 288: no bot, nothing to do.
BotManager_stop_check ==
    /\ main_pc = "stop_check"
    /\ main_ctx' = [main_ctx EXCEPT
            !.entry = [bot |-> bot, is_running |-> bot_is_running],
            !.ret = IF bot = None THEN "no_bot" ELSE "none"]
    /\ main_pc' = IF bot = None THEN "stop_returned" ELSE "stop_close"
    /\ UNCHANGED <<bot, bot_is_running, threads, exit_status, outsideBot>>

CloseOutcomes == {"completes", "raises", "timeout"}

\* BotManager.stop, lines 292-302: nothing is closed if the bot is closed
\* already; a bot that is None by now raises AttributeError, which is
\* caught.
CloseSkipped(b, ths) == b = None \/ is_closed(ths, b)

\* _close_bot_sync: the bot is closed in its own loop, waiting five
\* seconds at most; the close completes, raises or runs out of time.
close_bot_sync(b, ths, outcome) ==
    IF ~CloseSkipped(b, ths) /\ outcome = "completes"
    THEN [ths EXCEPT ![b.id].closed = TRUE]
    ELSE ths

\* BotManager.stop, lines 293-302: every exception of the close is caught.
BotManager_stop_close ==
    /\ main_pc = "stop_close"
    /\ \E outcome \in CloseOutcomes :
        /\ threads' = close_bot_sync(bot, threads, outcome)
        /\ main_ctx' = [main_ctx EXCEPT
                !.close = IF CloseSkipped(bot, threads) THEN "skipped" ELSE outcome]
    /\ main_pc' = "stop_clear_bot"
    /\ UNCHANGED <<bot, bot_is_running, exit_status, outsideBot>>

\* BotManager.stop, line 304.
BotManager_stop_clear_bot ==
    /\ main_pc = "stop_clear_bot"
    /\ bot' = None
    /\ main_pc' = "stop_clear_flag"
    /\ UNCHANGED <<bot_is_running, threads, main_ctx, exit_status, outsideBot>>

\* BotManager.stop, line 305.
BotManager_stop_clear_flag ==
    /\ main_pc = "stop_clear_flag"
    /\ bot_is_running' = FALSE
    /\ main_pc' = "stop_returned"
    /\ main_ctx' = [main_ctx EXCEPT !.ret = "stopped"]
    /\ UNCHANGED <<bot, threads, exit_status, outsideBot>>

\* BotManager.stop as one call, with no step of another thread inside it:
\* what it makes of the manager m = [bot, is_running, threads].
BotManager_stop_ClearsFlagFirst(m, outcome) ==
    [bot |-> None, is_running |-> FALSE,
     threads |-> IF m.bot = None THEN m.threads
                 ELSE close_bot_sync(m.bot, m.threads, outcome)]

BotManager_stop(m, outcome) ==
    IF m.bot = None
    THEN m
    ELSE [bot |-> None, is_running |-> FALSE,
          threads |-> close_bot_sync(m.bot, m.threads, outcome)]

\* BotManager.stop returns into BotManager.restart, which sleeps a second
\* and calls start.
BotManager_restart_sleep ==
    /\ main_pc = "stop_returned"
    /\ main_ctx.why = "restart"
    /\ main_pc' = "start_check"
    /\ UNCHANGED <<bot, bot_is_running, threads, main_ctx, exit_status, outsideBot>>

\* BotManager.stop returns into DiscordListener.stop, called by main()'s
\* finally, or DiscordListener.stop found no bot_manager: the process ends,
\* and its daemon threads with it.
Exit ==
    /\ main_pc \in {"stop_returned", "not_initialized"}
    /\ main_ctx.why # "restart"
    /\ main_pc' = "exited"
    /\ exit_status' = ExitStatus(main_ctx.why)
    /\ UNCHANGED <<bot, bot_is_running, threads, main_ctx, outsideBot>>

\* run_bot_thread, lines 264-271: the worker makes its bot, publishes it
\* in BotManager.bot and connects.
Thread_create(w) ==
    /\ main_pc # "exited"
    /\ threads[w].pc = "create"
    /\ bot' = Bot(w)
    /\ threads' = [threads EXCEPT ![w].pc = "run"]
    /\ UNCHANGED <<bot_is_running, main_pc, main_ctx, exit_status, outsideBot>>

\* on_ready: the worker's bot is connected, now or again after a
\* reconnection, and sets the flag.
Thread_on_ready(w) ==
    /\ main_pc # "exited"
    /\ threads[w].pc = "run"
    /\ ~threads[w].closed
    /\ bot_is_running' = TRUE
    /\ UNCHANGED <<bot, threads, main_pc, main_ctx, exit_status, outsideBot>>

\* bot.start of the worker returns or raises: the bot was closed, or the
\* connection failed, with the bot closed by discord.py or not.
Thread_run_ends(w, closes) ==
    /\ main_pc # "exited"
    /\ threads[w].pc = "run"
    /\ threads' = [threads EXCEPT ![w] =
            [pc |-> "finally_close", closed |-> threads[w].closed \/ closes]]
    /\ UNCHANGED <<bot, bot_is_running, main_pc, main_ctx, exit_status, outsideBot>>

\* run_bot_thread, line 276: the worker closes BotManager.bot, whichever
\* bot that is by now.  With no bot it raises AttributeError and the thread
\* ends; closing the bot of another thread's loop may raise as well.
Thread_finally_close(w, raises) ==
    /\ main_pc # "exited"
    /\ threads[w].pc = "finally_close"
    /\ IF bot = None
       THEN threads' = [threads EXCEPT ![w] = NoThread]
       ELSE LET closed == [threads EXCEPT ![bot.id].closed = TRUE]
            IN  threads' = IF raises /\ bot.id # w
                           THEN [closed EXCEPT ![w] = NoThread]
                           ELSE [closed EXCEPT ![w].pc = "reset_flag"]
    /\ UNCHANGED <<bot, bot_is_running, main_pc, main_ctx, exit_status, outsideBot>>

\* run_bot_thread, line 278.
Thread_reset_flag(w) ==
    /\ main_pc # "exited"
    /\ threads[w].pc = "reset_flag"
    /\ bot_is_running' = FALSE
    /\ threads' = [threads EXCEPT ![w].pc = "reset_bot"]
    /\ UNCHANGED <<bot, main_pc, main_ctx, exit_status, outsideBot>>

\* run_bot_thread, line 279, and the thread ends.
Thread_reset_bot(w) ==
    /\ main_pc # "exited"
    /\ threads[w].pc = "reset_bot"
    /\ bot' = None
    /\ threads' = [threads EXCEPT ![w] = NoThread]
    /\ UNCHANGED <<bot_is_running, main_pc, main_ctx, exit_status, outsideBot>>

----------------------------------------------------------------------------
(* The listener's log handlers and the pipes of Popen *)

\* The pipe before Popen made it.
NoPipe == [fill |-> 0, read_end |-> "none"]

\* No listener was started yet.
Pipe_init ==
    /\ listener = "none"
    /\ stderr_pipe = NoPipe

\* file_handler.emit: the record becomes the last line of
\* discord_listener.log, after a rollover when the file is full.
FileEmit(file, line) ==
    IF file = Absent THEN PyList(<<line>>)
    ELSE IF Len(file.v) >= MaxLines THEN PyList(<<line>>)
    ELSE PyList(Append(file.v, line))

\* console_handler.emit: the record is written to standard error.  The
\* write returns once the pipe's buffer has taken the record, waits while
\* the buffer is full and the read end is open, and fails with EPIPE, which
\* the handler swallows, when the read end is closed.
ConsoleEmit(pipe) ==
    IF pipe.read_end = "open" /\ pipe.fill < PipeCapacity
    THEN [listener |-> "running", pipe |-> [pipe EXCEPT !.fill = @ + 1]]
    ELSE IF pipe.read_end = "open"
    THEN [listener |-> "blocked", pipe |-> pipe]
    ELSE [listener |-> "running", pipe |-> pipe]

\* subprocess.Popen in ListenerManager.start: the listener starts with its
\* standard error (and standard output) on a new pipe whose read end the
\* Popen handle keeps.
Popen ==
    /\ listener \in {"none", "dead"}
    /\ listener' = "running"
    /\ stderr_pipe' = [fill |-> 0, read_end |-> "open"]
    /\ UNCHANGED <<log_file, outsidePipe>>

\* A thread of the listener logs a record: the root logger hands it to
\* file_handler and then to console_handler.
Listener_log(line) ==
    /\ listener = "running"
    /\ log_file' = FileEmit(log_file, line)
    /\ LET console == ConsoleEmit(stderr_pipe)
       IN  /\ listener' = console.listener
           /\ stderr_pipe' = console.pipe
    /\ UNCHANGED outsidePipe

\* The GUI process ends while the listener, in its own session, goes on:
\* the read end is closed, and a write that was waiting fails with EPIPE.
Supervisor_exit ==
    /\ stderr_pipe.read_end = "open"
    /\ listener \in {"running", "blocked"}
    /\ stderr_pipe' = [fill |-> 0, read_end |-> "closed"]
    /\ listener' = "running"
    /\ UNCHANGED <<log_file, outsidePipe>>

\* ListenerManager.stop ends the listener and drops the handle; the pipe
\* goes with them.
Listener_stopped ==
    /\ listener \in {"running", "blocked"}
    /\ listener' = "dead"
    /\ stderr_pipe' = [fill |-> 0, read_end |-> "closed"]
    /\ UNCHANGED <<log_file, outsidePipe>>

----------------------------------------------------------------------------
(* Specification *)

\* WebhookForwarder.__init__: the configuration it is given, no session.
WebhookForwarder_init ==
    /\ session = "none"
    /\ event = NoEvent
    /\ scope = NoScope
    /\ rules = <<>>
    /\ deliveries = <<>>
    /\ result = "idle"

\* The log of a listener that has handled an event.
SomeLog == PyList(<<"INFO started\n", "INFO event\n">>)

\* DiscordListener.initialize: the configuration is loaded from config.yaml
\* and given to the WebhookForwarder.
Init ==
    /\ yaml_rules \in Snapshots
    /\ config = yaml_rules
    /\ WebhookForwarder_init
    /\ ListenerManager_init
    /\ BotManager_init
    /\ Pipe_init
    /\ bot_section = GoodBotSection
    /\ log_file = SomeLog

Next ==
    \/ WebhookForwarder_start
    \/ WebhookForwarder_stop
    \/ \E e \in Events : handle_event(e.event_type, e.data)
    \/ EventDone

Spec == Init /\ [][Next]_vars

\* The forwarder of a running listener, started, with well-formed rules.
InitReload ==
    /\ yaml_rules \in CoreSnapshots(MaxRules)
    /\ \A i \in 1..Len(yaml_rules) : yaml_rules[i].webhook_url # Absent
    /\ config = yaml_rules
    /\ WebhookForwarder_init
    /\ ListenerManager_init
    /\ BotManager_init
    /\ Pipe_init
    /\ bot_section = GoodBotSection
    /\ log_file = SomeLog

NextReload ==
    \/ WebhookForwarder_start
    \/ \E e \in Events : handle_event(e.event_type, e.data)
    \/ EventDone
    \/ \E idx \in 0..(MaxRules - 1), enabled \in BOOLEAN : toggle_rule(idx, enabled)
    \/ \E idx \in 0..(MaxRules - 1) : delete_rule(idx)

SpecReload == InitReload /\ [][NextReload]_vars

\* The GUI with its ListenerManager; the forwarder is in the listener
\* process and is left aside.
InitSupervisor ==
    /\ yaml_rules = <<>>
    /\ config = yaml_rules
    /\ WebhookForwarder_init
    /\ ListenerManager_init
    /\ BotManager_init
    /\ Pipe_init
    /\ bot_section = GoodBotSection
    /\ log_file = SomeLog

NextSupervisor ==
    \/ ListenerManager_is_running
    \/ ListenerManager_start
    \/ ListenerManager_stop
    \/ ListenerManager_restart_stop
    \/ ListenerManager_restart_start
    \/ ListenerManager_get_status
    \/ \E lines \in 0..(MaxLines + 1) : ListenerManager_get_logs(lines)
    \/ \E p \in Pids : ListenerExit(p)
    \/ \E p \in Pids : OtherStarts(p)
    \/ \E p \in Pids : OtherExits(p)
    \/ GuiRestart
    \/ NewSession

SpecSupervisor == InitSupervisor /\ [][NextSupervisor]_vars

\* The GUI reading the log that a listener writes.
InitLogs ==
    /\ yaml_rules = <<>>
    /\ config = yaml_rules
    /\ WebhookForwarder_init
    /\ ListenerManager_init
    /\ BotManager_init
    /\ Pipe_init
    /\ bot_section = GoodBotSection
    /\ log_file \in Logs

NextLogs ==
    \/ \E lines \in 0..(MaxLines + 1) : ListenerManager_get_logs(lines)
    \/ \E line \in LogLines : LogWrite(line)

SpecLogs == InitLogs /\ [][NextLogs]_vars

\* The listener process: its main thread and the worker threads.
InitBot ==
    /\ yaml_rules = <<>>
    /\ config = yaml_rules
    /\ WebhookForwarder_init
    /\ ListenerManager_init
    /\ BotManager_init
    /\ Pipe_init
    /\ bot_section \in BotSections
    /\ log_file = SomeLog

MainThread ==
    \/ DiscordListener_initialize
    \/ BotManager_start_check
    \/ BotManager_start_spawn
    \/ BotManager_start_flag
    \/ DiscordListener_loop
    \/ DiscordListener_sleep
    \/ DiscordListener_poll
    \/ BotManager_stop_check
    \/ BotManager_stop_close
    \/ BotManager_stop_clear_bot
    \/ BotManager_stop_clear_flag
    \/ BotManager_restart_sleep
    \/ Exit

WorkerThread(w) ==
    \/ Thread_create(w)
    \/ Thread_on_ready(w)
    \/ \E closes \in BOOLEAN : Thread_run_ends(w, closes)
    \/ \E raises \in BOOLEAN : Thread_finally_close(w, raises)
    \/ Thread_reset_flag(w)
    \/ Thread_reset_bot(w)

NextBot ==
    \/ MainThread
    \/ \E w \in ThreadIds : WorkerThread(w)
    \/ Shutdown

SpecBot == InitBot /\ [][NextBot]_vars

\* The same with a scheduler that lets every thread that can run take its
\* next step; the signal and the failures are free to stay away.
SpecBotFair ==
    /\ InitBot /\ [][NextBot]_vars
    /\ WF_vars(MainThread)
    /\ \A w \in ThreadIds : WF_vars(WorkerThread(w))


\* A connected bot receiving gateway events.
InitGateway ==
    /\ yaml_rules = <<>>
    /\ config = yaml_rules
    /\ WebhookForwarder_init
    /\ ListenerManager_init
    /\ BotManager_init
    /\ Pipe_init
    /\ bot_section = GoodBotSection
    /\ log_file = SomeLog

NextGateway ==
    \E o \in Occurrences :
        \/ on_message(o)
        \/ on_member_join(o)
        \/ on_member_remove(o)
        \/ on_reaction_add(o)
        \/ on_guild_channel_create(o)
        \/ on_guild_channel_delete(o)

SpecGateway == InitGateway /\ [][NextGateway]_vars

\* A machine on which no listener ran yet; the GUI starts and stops the
\* listener, and the listener logs.  Nothing reads the pipe.
InitPipe ==
    /\ yaml_rules = <<>>
    /\ config = yaml_rules
    /\ WebhookForwarder_init
    /\ ListenerManager_init
    /\ BotManager_init
    /\ Pipe_init
    /\ bot_section = GoodBotSection
    /\ log_file = Absent

NextPipe ==
    \/ Popen
    \/ \E line \in LogLines : Listener_log(line)
    \/ Supervisor_exit
    \/ Listener_stopped

SpecPipe == InitPipe /\ [][NextPipe]_vars

TypeOKPipe ==
    /\ listener \in {"none", "running", "blocked", "dead"}
    /\ stderr_pipe \in [fill : 0..PipeCapacity, read_end : {"none", "open", "closed"}]
    /\ log_file \in Logs

\* The handle is a child of the GUI process, running or exited.
TypeOKSupervisor ==
    /\ procs \in [Pids -> ProcStates]
    /\ process # None => procs[process.pid] \in {"child", "zombie"}
    /\ pid_file # Absent => load_pid(pid_file) # None
    /\ call.polls \in 0..PollLimit

\* BotManager.bot is a bot that a thread made and has not finished with.
TypeOKBot ==
    /\ threads \in [ThreadIds -> [pc : ThreadPcs, closed : BOOLEAN]]
    /\ bot # None => threads[bot.id].pc \in {"run", "finally_close", "reset_flag", "reset_bot"}
    /\ bot_is_running \in BOOLEAN
    /\ exit_status # None <=> main_pc = "exited"

TypeOK ==
    /\ config \in Snapshots
    /\ session \in {"none", "open", "closed"}
    /\ result \in {"idle", "returned", "caught", "raised"}
    /\ Len(rules) <= Len(config)
    /\ Len(deliveries) <= Len(rules)

----------------------------------------------------------------------------
(* Vocabulary of the properties *)

\* A handle_event call has run to its end and its frame is still there.
Handled == result # "idle"

Returned(rule) == \E k \in 1..Len(rules) : rules[k] = rule

\* The rule is enabled: its enabled field is true, or it has none.
IsEnabled(rule) == rule.enabled \in {Absent, PyBool(TRUE)}

\* The rule has neither a scope_type nor a scope_id.
Unscoped(rule) ==
    /\ rule.scope_type \in {Absent, None}
    /\ rule.scope_id \in {Absent, None}

\* The rule with its scope restriction taken away.
WithoutScope(rule) == [rule EXCEPT !.scope_type = None, !.scope_id = None]

\* The rule on its own is returned for the handled event.
ReturnedAlone(rule) ==
    get_matching_rules_from_config(
        <<rule>>, event.event_type, scope.scope_type, scope.scope_id) = <<rule>>

\* The positions of the snapshot whose rule is enabled and satisfies the
\* event-type condition and the scope condition.
MatchingPositions ==
    {i \in 1..Len(config) :
        /\ IsEnabled(config[i])
        /\ EventMatch(config[i], event.event_type)
        /\ ScopeMatch(config[i], scope.scope_type, scope.scope_id)}

----------------------------------------------------------------------------
(* C1 *)

\* C1: the list handle_event gets from _get_matching_rules_from_config is
\* exactly the subsequence of the snapshot at the matching positions: the
\* k-th returned rule is the rule at the k-th smallest matching position, so
\* every matching rule is returned once, in snapshot order, and a match
\* does not stop later rules from being evaluated.
C1_MatchIsOrderedSubsequence ==
    Handled =>
        /\ Len(rules) = Cardinality(MatchingPositions)
        /\ \A k \in 1..Len(rules) :
              \E i \in MatchingPositions :
                  /\ Cardinality({j \in MatchingPositions : j < i}) = k - 1
                  /\ rules[k] = config[i]

\* Two rules of one snapshot match one event, and both are returned in order.
C1_Witness ==
    /\ Handled
    /\ Len(config) >= 2
    /\ Cardinality(MatchingPositions) >= 2
    /\ Len(rules) >= 2
    /\ rules[1] = config[1]

----------------------------------------------------------------------------
(* C2 *)

\* C2: a rule whose enabled field is false is never returned, whatever the
\* event and the rule's other fields; a rule with no enabled field is
\* returned exactly when the same rule with enabled: true is.
C2_DisabledNeverReturned ==
    Handled =>
        \A i \in 1..Len(config) :
            /\ config[i].enabled = PyBool(FALSE) => ~Returned(config[i])
            /\ config[i].enabled = Absent =>
                  (Returned(config[i]) <=>
                      ReturnedAlone([config[i] EXCEPT !.enabled = PyBool(TRUE)]))

\* A disabled rule that the handled event and its scope fit, so that only
\* its enabled field keeps it out of the result.
C2_Witness ==
    /\ Handled
    /\ \E i \in 1..Len(config) :
          /\ config[i].enabled = PyBool(FALSE)
          /\ ReturnedAlone([config[i] EXCEPT !.enabled = PyBool(TRUE)])
          /\ ~Returned(config[i])

----------------------------------------------------------------------------
(* C3 *)

\* C3: an enabled rule without scope restriction is returned for every
\* event type when its event_type is null, and, when its event_type is a
\* list, exactly when the event's type is one of the list's elements.
C3_NullAndListEventType ==
    Handled =>
        \A i \in 1..Len(config) :
            (IsEnabled(config[i]) /\ Unscoped(config[i])) =>
                /\ config[i].event_type \in {Absent, None} => Returned(config[i])
                /\ config[i].event_type.t = "list" =>
                      (Returned(config[i]) <=>
                          \E k \in 1..Len(config[i].event_type.v) :
                              config[i].event_type.v[k] = PyStr(event.event_type))

\* An enabled unscoped rule with an empty list is not returned, and one with
\* a list that holds the event's type would be.
C3_Witness ==
    /\ Handled
    /\ \E i \in 1..Len(config) :
          /\ IsEnabled(config[i]) /\ Unscoped(config[i])
          /\ config[i].event_type = PyList(<<>>)
          /\ ~Returned(config[i])

----------------------------------------------------------------------------
(* C4 *)

IsMember(x, l) == \E k \in 1..Len(l) : l[k] = x

\* C4 as stated: for an enabled unscoped rule whose event_type is a string,
\* the rule is returned exactly when that string equals the event's type;
\* an event_type that is neither null, a list nor a string is never returned.
C4_ScalarIsPlainEquality ==
    Handled =>
        \A i \in 1..Len(config) :
            (IsEnabled(config[i]) /\ Unscoped(config[i])) =>
                /\ config[i].event_type.t = "str" =>
                      (Returned(config[i]) <=>
                          config[i].event_type.v = event.event_type)
                /\ config[i].event_type.t \notin {"absent", "none", "list", "str"} =>
                      ~Returned(config[i])

\* C4 amended: a string event_type that is the JSON text of a list matches
\* exactly the event types that are elements of that list; every other
\* string matches exactly the event type equal to it; an event_type that is
\* neither null, a list nor a string is never returned.
C4_ScalarJsonThenEquality ==
    Handled =>
        \A i \in 1..Len(config) :
            (IsEnabled(config[i]) /\ Unscoped(config[i])) =>
                /\ config[i].event_type.t = "str" =>
                      LET text == config[i].event_type.v
                          isJsonList == \E l \in JsonLists : JsonTexts[l] = text
                      IN  /\ isJsonList =>
                                (Returned(config[i]) <=>
                                    \E l \in JsonLists :
                                        /\ JsonTexts[l] = text
                                        /\ IsMember(event.event_type, l))
                          /\ ~isJsonList =>
                                (Returned(config[i]) <=> text = event.event_type)
                /\ config[i].event_type.t \notin {"absent", "none", "list", "str"} =>
                      ~Returned(config[i])

\* A rule whose event_type is the JSON text of a list is returned for an
\* event type that the list holds and that differs from the text.
C4_Witness ==
    /\ Handled
    /\ \E i \in 1..Len(config) :
          /\ IsEnabled(config[i]) /\ Unscoped(config[i])
          /\ config[i].event_type = PyStr(JsonList(<<"message", "reaction_add">>))
          /\ event.event_type = "reaction_add"
          /\ Returned(config[i])

----------------------------------------------------------------------------
(* C5 *)

GuildScope(id) == [scope_type |-> PyStr("guild"), scope_id |-> PyStr(id)]
ChannelScope(id) == [scope_type |-> PyStr("channel"), scope_id |-> PyStr(id)]

\* C5: an enabled rule with event_type null, scope_type "guild" and scope_id
\* "42" (or the integer 42) is returned when the derived scope is
\* {guild, 42} and is not returned when it is {channel, 42} or {guild, 43}.
C5_GuildFortyTwo ==
    Handled =>
        \A i \in 1..Len(config) :
            (/\ IsEnabled(config[i])
             /\ config[i].event_type \in {Absent, None}
             /\ config[i].scope_type = PyStr("guild")
             /\ config[i].scope_id \in {PyStr("42"), PyInt(42)}) =>
                /\ scope = GuildScope("42") => Returned(config[i])
                /\ scope \in {ChannelScope("42"), GuildScope("43")} =>
                      ~Returned(config[i])

\* A rule whose scope_id is the integer 42 is returned for the guild "42".
C5_Witness ==
    /\ Handled
    /\ scope = GuildScope("42")
    /\ \E i \in 1..Len(config) :
          /\ config[i].scope_type = PyStr("guild")
          /\ config[i].scope_id = PyInt(42)
          /\ Returned(config[i])

----------------------------------------------------------------------------
(* C6 *)

\* The rule sets a scope_type and leaves scope_id null.
KindOnly(rule) ==
    /\ rule.scope_type \notin {Absent, None}
    /\ rule.scope_id \in {Absent, None}

----------------------------------------------------------------------------
(* C7 *)

\* C7: an enabled rule with scope_type "guild" and a null scope_id is
\* returned for every event whose derived scope is a guild and whose type
\* the rule accepts.
C7_KindOnlyMatchesEveryGuild ==
    Handled =>
        \A i \in 1..Len(config) :
            (/\ IsEnabled(config[i]) /\ KindOnly(config[i])
             /\ config[i].scope_type = PyStr("guild")
             /\ scope.scope_type = PyStr("guild")) =>
                (Returned(config[i]) <=> ReturnedAlone(WithoutScope(config[i])))

----------------------------------------------------------------------------
(* C8 *)

\* C8: a returned rule that sets both scope_type and scope_id names the
\* derived scope of the event: same kind, same id as text.
C8_ScopedRuleOnlyForItsScope ==
    Handled =>
        \A i \in 1..Len(config) :
            (/\ config[i].scope_type \notin {Absent, None}
             /\ config[i].scope_id \notin {Absent, None}
             /\ Returned(config[i])) =>
                /\ scope.scope_type = config[i].scope_type
                /\ scope.scope_id = PyStr(Str(config[i].scope_id))

----------------------------------------------------------------------------
(* C9 *)

\* C9: the derived scope is {guild, str(guild_id)} when the event has a
\* non-null guild_id, else {channel, str(channel_id)} when it has a
\* channel_id key, else no scope.
C9_ScopePrefersGuild ==
    Handled =>
        LET data == event.data
        IN  IF data.guild_id \notin {Absent, None}
            THEN scope = GuildScope(Str(data.guild_id))
            ELSE IF data.channel_id # Absent
            THEN scope = ChannelScope(Str(data.channel_id))
            ELSE scope = NoScope

\* An event with both a guild_id and a channel_id gets the guild's scope.
C9_Witness ==
    /\ Handled
    /\ event.data.guild_id = PyInt(43)
    /\ event.data.channel_id = PyInt(42)
    /\ scope = GuildScope("43")

----------------------------------------------------------------------------
(* C10 *)

\* The call ended in a failure: an exception of session.post or a response
\* whose status is neither 200 nor 204.
Failed(d) ==
    /\ d.post
    /\ \/ d.response.kind = "raise"
       \/ d.response.status_code \notin {200, 204}

WellFormed(rule) == rule.name # Absent /\ rule.webhook_url # Absent

\* C10: when the delivery for the i-th matched rule fails, every later
\* matched rule j still gets its call of session.post, with its own url,
\* provided the rules from i+1 to j have their name and webhook_url keys.
C10_DeliveryIsolation ==
    Handled =>
        \A i \in 1..Len(deliveries) :
            Failed(deliveries[i]) =>
                \A j \in (i + 1)..Len(rules) :
                    (\A m \in (i + 1)..j : WellFormed(rules[m])) =>
                        /\ j <= Len(deliveries)
                        /\ deliveries[j].post
                        /\ deliveries[j].webhook_url = rules[j].webhook_url
                        /\ deliveries[j].rule_name = rules[j].name

\* The first target times out and the second one is delivered.
C10_Witness ==
    /\ Handled
    /\ Len(deliveries) >= 2
    /\ deliveries[1].response = Raises("ReadTimeout")
    /\ deliveries[2].response = Response(200)
    /\ deliveries[2].level = "info"

----------------------------------------------------------------------------
(* C11 *)

\* The response is one of the two statuses that count as a delivery.
IsSuccess(response) ==
    response.kind = "response" /\ response.status_code \in {200, 204}

\* C11: with the forwarder started, a handled event has exactly one call of
\* session.post per matched rule, the k-th call going to the k-th matched
\* rule's webhook_url, whatever the earlier responses were; the call is
\* logged as sent exactly when its status is 200 or 204; and nothing raised.
C11_OnePostPerMatchedRule ==
    (Handled /\ session = "open") =>
        /\ Len(deliveries) = Len(rules)
        /\ \A k \in 1..Len(deliveries) :
              /\ deliveries[k].post
              /\ deliveries[k].webhook_url = rules[k].webhook_url
              /\ deliveries[k].level = "info" <=> IsSuccess(deliveries[k].response)
        /\ result = "returned"

----------------------------------------------------------------------------
(* C12 *)

\* C12: in every posted body, a key of the envelope holds the envelope's
\* value even when the event's attributes have that key, and every
\* attribute under another key is in the body unchanged.
C12_EnvelopeWinsOnCollision ==
    Handled =>
        \A k \in 1..Len(deliveries) :
            deliveries[k].post =>
                LET body == deliveries[k].payload
                    envelope == Envelope(deliveries[k].rule_name, event.event_type)
                IN  /\ \A key \in EnvelopeKeys : body[key] = envelope[key]
                    /\ \A key \in DOMAIN event.data \ EnvelopeKeys :
                          body[key] = event.data[key]

----------------------------------------------------------------------------
(* C13 *)

\* C13: a call of handle_event returns to its caller, whatever the event,
\* its attributes, the snapshot and the state of the forwarder; when a
\* matched rule lacks a key, the KeyError is caught inside the call.
C13_HandleEventNeverRaises ==
    Handled =>
        /\ result \in {"returned", "caught"}
        /\ result = "caught" <=>
              \E k \in 1..Len(rules) : ~WellFormed(rules[k])

\* A matched rule without webhook_url made the loop raise, in each state of
\* the forwarder, and the call still returned.
C13_Witness ==
    /\ Handled
    /\ result = "caught"
    /\ \E k \in 1..Len(rules) : rules[k].webhook_url = Absent

----------------------------------------------------------------------------
(* C14 *)

\* C14: the rules matched for a handled event are the matching rules of
\* the rule list that config.yaml holds when the event is handled, so an
\* edit made in the GUI while the listener runs is used for the next event.
C14_MatchingUsesEditedRules ==
    Handled =>
        rules = get_matching_rules_from_config(
                    yaml_rules, event.event_type, scope.scope_type, scope.scope_id)

----------------------------------------------------------------------------
(* Vocabulary of the ListenerManager properties *)

\* The last step was a call of this ListenerManager operation.
Called(op) == call.op = op

\* The handle the call found reports its process alive.
HandleAlive(b) == b.process # None /\ b.procs[b.process.pid] = "child"

\* The handle the call found is of a child that has exited: asking the
\* handle waits for the child, and its pid has no process any more.
HandleReaps(b, pid) ==
    /\ b.process # None
    /\ b.process.pid = pid
    /\ b.procs[pid] = "zombie"

\* The pid the PID file named when the call began, or None.
RecordPid(b) == load_pid(b.pid_file)

\* The PID file the call found names a pid that the operating system has
\* a process for when the call probes it.
RecordAlive(b) ==
    /\ RecordPid(b) # None
    /\ b.procs[RecordPid(b).v] # "free"
    /\ ~HandleReaps(b, RecordPid(b).v)

\* The PID file the call found names a pid that has no process.
RecordStale(b) == RecordPid(b) # None /\ ~RecordAlive(b)

WasRunning(b) == HandleAlive(b) \/ RecordAlive(b)

\* The pids that have a listener or another process.
Living(table) == {p \in DOMAIN table : table[p] \in {"child", "orphan", "other"}}

----------------------------------------------------------------------------
(* C15 *)

\* C15: is_running returns true exactly when the handle reports its
\* process alive or the PID file names a pid that the liveness probe finds;
\* in every other state it returns false.
C15_IsRunningIffHandleOrRecordAlive ==
    Called("is_running") =>
        (call.ret = PyBool(TRUE) <=> WasRunning(call.before))
        /\ call.ret \in {PyBool(TRUE), PyBool(FALSE)}

\* is_running answered true without a handle, from the PID file alone.
C15_Witness ==
    /\ Called("is_running")
    /\ call.ret = PyBool(TRUE)
    /\ call.before.process = None
    /\ RecordAlive(call.before)

----------------------------------------------------------------------------
(* C16 *)

\* C16: when the PID file names a pid that has no process and no handle
\* reports a live process, is_running returns false and removes the file;
\* and a start that goes on to launch has found no such file left: the
\* file it leaves is the new child's, or none.
C16_StaleRecordHealed ==
    /\ (Called("is_running") /\ RecordStale(call.before) /\ ~HandleAlive(call.before)) =>
          /\ call.ret = PyBool(FALSE)
          /\ pid_file = Absent
    /\ (Called("start") /\ call.case \in {"launch_raised", "not_alive", "started"}) =>
          /\ ~RecordAlive(call.before)
          /\ pid_file = IF call.case = "started" THEN save_pid(call.pid.v) ELSE Absent

\* A start that found a stale PID file, launched, and saw the launch fail:
\* the stale file is gone.
C16_Witness ==
    /\ Called("start")
    /\ call.case = "not_alive"
    /\ RecordStale(call.before)
    /\ call.before.procs[RecordPid(call.before).v] = "free"
    /\ pid_file = Absent

----------------------------------------------------------------------------
(* C17 *)

\* start refused or failed.
StartFailed == Called("start") /\ call.case # "started"

\* No process was launched: every process that runs ran before.
NothingLaunched == Living(procs) \subseteq Living(call.before.procs)

\* C17 as stated: start returns false when the listener runs already,
\* when the script is missing, when the launch raises and when the
\* liveness check fails; in the first two cases nothing is launched and the
\* PID file is as it was, in the last two no PID file is written.
C17_StartFailureLeavesRecord ==
    StartFailed =>
        /\ call.ret = PyBool(FALSE)
        /\ call.case \in {"running", "no_script"} =>
              NothingLaunched /\ pid_file = call.before.pid_file
        /\ call.case \in {"launch_raised", "not_alive"} => pid_file = Absent

\* C17 amended: as above, but in the first two cases the PID file is as it
\* was unless it was stale, and then it has been removed.
C17_StartFailureWritesNoRecord ==
    StartFailed =>
        /\ call.ret = PyBool(FALSE)
        /\ call.case = "running" <=> WasRunning(call.before)
        /\ call.case \in {"running", "no_script"} =>
              /\ NothingLaunched
              /\ pid_file = IF RecordStale(call.before) THEN Absent
                            ELSE call.before.pid_file
        /\ call.case \in {"launch_raised", "not_alive"} =>
              /\ pid_file = Absent
              /\ process = None

\* The script is missing and the PID file was stale: start returns false
\* and the file is gone.
C17_Witness ==
    /\ StartFailed
    /\ call.case = "no_script"
    /\ call.before.pid_file # Absent
    /\ pid_file = Absent

----------------------------------------------------------------------------
(* C18 *)

----------------------------------------------------------------------------
(* C19 *)

\* C19: stop on a listener that is not running returns false and sends no
\* signal: no process that ran has been ended.
C19_StopWhenNotRunning ==
    (Called("stop") /\ ~WasRunning(call.before)) =>
        /\ call.ret = PyBool(FALSE)
        /\ call.case = "not_running"
        /\ call.signals = <<>>
        /\ Living(procs) = Living(call.before.procs)

\* stop was called with a stale PID file and another process running.
C19_Witness ==
    /\ Called("stop")
    /\ call.case = "not_running"
    /\ RecordStale(call.before)
    /\ Living(procs) # {}

----------------------------------------------------------------------------
(* C20 *)

\* C20: after stop on a listener that was running, on whichever path it
\* returned, there is no PID file and no handle, and is_running called now
\* returns false.
C20_StopClearsRecordAndHandle ==
    (Called("stop") /\ WasRunning(call.before)) =>
        /\ call.case \in {"gone", "graceful", "forced", "forced_gone", "error"}
        /\ pid_file = Absent
        /\ process = None
        /\ ~is_running(process, pid_file, procs).ret

\* stop had to send SIGKILL to the child of its handle.
C20_Witness ==
    /\ Called("stop")
    /\ call.case = "forced"
    /\ call.before.process # None
    /\ call.before.pid_file # Absent
    /\ call.signals = <<SIGTERM(call.pid.v), SIGKILL(call.pid.v)>>
    /\ pid_file = Absent
    /\ process = None

----------------------------------------------------------------------------
(* C21 *)

\* The call sent this signal.
Sent(sig) == \E i \in 1..Len(call.signals) : call.signals[i].sig = sig

\* C21: the first signal stop sends is SIGTERM; SIGKILL is sent only after
\* all 50 polls have seen the pid, and to the pid's group, as SIGTERM was;
\* when a poll finds the pid gone, stop returns true at that poll, having
\* sent SIGTERM only.
C21_GracefulThenForceful ==
    Called("stop") =>
        /\ call.signals # <<>> => call.signals[1] = SIGTERM(call.pid.v)
        /\ Sent("SIGKILL") =>
              /\ call.polls = PollLimit
              /\ call.case = "forced"
              /\ call.signals = <<SIGTERM(call.pid.v), SIGKILL(call.pid.v)>>
        /\ call.case = "graceful" =>
              /\ call.ret = PyBool(TRUE)
              /\ call.polls \in 1..PollLimit
              /\ call.signals = <<SIGTERM(call.pid.v)>>
        /\ (call.polls > 0 /\ call.polls < PollLimit) => call.case = "graceful"

\* The 50th poll found the process gone: stop returned without SIGKILL.
C21_Witness ==
    /\ Called("stop")
    /\ call.case = "graceful"
    /\ call.polls = PollLimit
    /\ ~Sent("SIGKILL")

----------------------------------------------------------------------------
(* C22 *)

\* The pid stop worked on has no process left, zombie included.
TargetGone == call.pid # None /\ procs[call.pid.v] = "free"

\* C22: when the target is gone as the SIGTERM is to be sent, at a poll,
\* or as the SIGKILL is to be sent, stop returns true and there is no PID
\* file and no handle.
C22_AlreadyGoneIsSuccess ==
    (Called("stop") /\ call.case \in {"gone", "graceful", "forced_gone"}) =>
        /\ call.ret = PyBool(TRUE)
        /\ pid_file = Absent
        /\ process = None
        /\ TargetGone

\* The process went away between is_running and the SIGTERM.
C22_Witness ==
    /\ Called("stop")
    /\ call.case = "gone"
    /\ call.ret = PyBool(TRUE)
    /\ call.signals = <<>>
    /\ call.before.pid_file # Absent

----------------------------------------------------------------------------
(* C23 *)

----------------------------------------------------------------------------
(* C24 *)

\* The k most recent lines of the log, the most recent first, as one text.
RECURSIVE NewestFirst(_, _)
NewestFirst(log, k) ==
    IF k = 0 THEN "" ELSE log[Len(log)] \o NewestFirst(SubSeq(log, 1, Len(log) - 1), k - 1)

Min(a, b) == IF a < b THEN a ELSE b

\* C24: get_logs(N) returns the min(N, M) most recent lines of a log file
\* of M lines, the most recent first, for every N >= 0; without a log file
\* it returns "No logs available".
C24_LogsAreLastLinesNewestFirst ==
    Called("get_logs") =>
        call.ret = IF log_file = Absent THEN PyStr("No logs available")
                   ELSE PyStr(NewestFirst(log_file.v,
                                          Min(call.arg.v, Len(log_file.v))))

----------------------------------------------------------------------------
(* C25 *)

\* C25 as stated: get_status and get_logs leave the handle and the PID
\* file as they were and send no signal, in every state.
C25_StatusAndLogsReadOnly ==
    (Called("get_status") \/ Called("get_logs")) =>
        /\ process = call.before.process
        /\ pid_file = call.before.pid_file
        /\ call.signals = <<>>

\* C25 amended: get_logs leaves the handle and the PID file as they were;
\* get_status does what its is_running does: it drops a handle whose
\* process has exited and removes a PID file whose pid has no process, and
\* leaves them as they were otherwise; neither sends a signal nor ends a
\* process.
C25_StatusHealsLogsReadOnly ==
    /\ Called("get_logs") =>
          /\ process = call.before.process
          /\ pid_file = call.before.pid_file
          /\ procs = call.before.procs
          /\ call.signals = <<>>
    /\ Called("get_status") =>
          /\ process = IF HandleAlive(call.before) THEN call.before.process ELSE None
          /\ pid_file = IF ~HandleAlive(call.before) /\ RecordStale(call.before)
                        THEN Absent ELSE call.before.pid_file
          /\ call.signals = <<>>
          /\ Living(procs) = Living(call.before.procs)
          /\ call.ret = PyBool(WasRunning(call.before))

\* get_status found the handle of an exited listener and its PID file: it
\* reports not running, and both are gone.
C25_Witness ==
    /\ Called("get_status")
    /\ call.ret = PyBool(FALSE)
    /\ call.before.process # None
    /\ call.before.pid_file # Absent
    /\ process = None
    /\ pid_file = Absent

----------------------------------------------------------------------------
(* C26 *)

\* The call was made by a ListenerManager without a handle, with a PID file
\* naming a listener that runs.
Reattached(b) ==
    /\ b.process = None
    /\ RecordPid(b) # None
    /\ b.procs[RecordPid(b).v] \in {"child", "orphan"}

\* C26: a ListenerManager without a handle, with a PID file naming a
\* running listener, answers is_running with true, reports the file's pid
\* in get_status, refuses start and launches nothing, and in stop sends its
\* first signal to the file's pid, unless that has gone meanwhile, and
\* removes the file.
C26_Reattachment ==
    (call.op # "none" /\ call.before # None /\ Reattached(call.before)) =>
        LET pid == RecordPid(call.before)
        IN  /\ Called("is_running") => call.ret = PyBool(TRUE)
            /\ Called("get_status") => call.ret = PyBool(TRUE) /\ call.pid = pid
            /\ Called("start") =>
                  /\ call.ret = PyBool(FALSE)
                  /\ call.case = "running"
                  /\ procs = call.before.procs
                  /\ pid_file = call.before.pid_file
            /\ Called("stop") =>
                  /\ call.pid = pid
                  /\ call.case # "gone" => call.signals[1] = SIGTERM(pid.v)
                  /\ call.ret = PyBool(TRUE)
                  /\ pid_file = Absent

\* After the GUI was started again, stop has ended the listener that the
\* PID file named.
C26_Witness ==
    /\ Called("stop")
    /\ Reattached(call.before)
    /\ call.before.procs[RecordPid(call.before).v] = "orphan"
    /\ call.signals # <<>>
    /\ call.signals[1] = SIGTERM(RecordPid(call.before).v)
    /\ pid_file = Absent
    /\ procs[call.pid.v] = "free"

----------------------------------------------------------------------------
(* Claims on BotManager and the supervision loop *)

\* The supervision loop of DiscordListener.start is running.
LoopRunning == main_ctx.why \in {"loop", "restart"}

\* No worker thread exists.
NoWorker == \A w \in ThreadIds : ~Alive(w)

\* A worker thread was started and has not connected yet.
WorkerStarted == \E w \in ThreadIds : threads[w].pc = "create"

\* C27: while the supervision loop is running, whenever the worker has
\* terminated, a new worker is eventually started (or the loop is left),
\* under fair scheduling of the main thread and the worker threads.
C27_WorkerEventuallyRestarted ==
    (LoopRunning /\ NoWorker) ~> (WorkerStarted \/ ~LoopRunning)

\* restart raised inside the supervision loop, and the loop was left.
RestartRaised == main_ctx.why = "halted"

\* C28: if BotManager.restart raises inside the supervision loop, the loop
\* halts without another restart attempt and the listener process ends with
\* a failure status, not as if it had stopped normally.
C28_RestartFailureIsFatal ==
    RestartRaised =>
        /\ main_pc \in {"stop_check", "stop_close", "stop_clear_bot",
                        "stop_clear_flag", "stop_returned", "exited"}
        /\ main_pc = "exited" => exit_status = PyInt(1)

\* The BotManager as it is now.
Manager == [bot |-> bot, is_running |-> bot_is_running, threads |-> threads]

\* C29: BotManager.stop is idempotent: called on a manager with no bot it
\* changes nothing, and called twice in a row it leaves the manager as one
\* call does, whatever the two closes do.
C29_StopIdempotent ==
    \A first, second \in CloseOutcomes :
        LET once == BotManager_stop(Manager, first)
        IN  /\ bot = None => once = Manager
            /\ BotManager_stop(once, second) = once

\* The main thread called stop twice in a row (restart failed after its
\* stop, and DiscordListener.stop followed); the second call found no bot
\* and left the manager as it was.
C29_Witness ==
    /\ RestartRaised
    /\ main_pc = "stop_returned"
    /\ main_ctx.ret = "no_bot"
    /\ Manager = [bot |-> None, is_running |-> FALSE, threads |-> threads]

\* The main thread is inside BotManager.stop.
InStop == main_pc \in {"stop_check", "stop_close", "stop_clear_bot", "stop_clear_flag"}

\* BotManager.stop, having found a bot, returns to its caller.
StopReturns == main_pc = "stop_clear_flag" /\ main_pc' = "stop_returned"

\* C30: BotManager.stop always terminates: whether the close completes,
\* raises or does not complete within the wait, the main thread is never
\* held inside stop, and stop returns leaving bot = None and
\* _is_running = False.
C30_StopReturnsCleared ==
    /\ [](InStop => ENABLED MainThread)
    /\ [][StopReturns => bot' = None /\ ~bot_is_running']_vars

\* The worker thread w is connected: bot.start runs and its bot is open.
Connected(w) == threads[w].pc = "run" /\ ~threads[w].closed

\* C31: at most one worker thread holding a bot connection is alive at any
\* time, in every interleaving of start, stop and restart with the worker
\* threads.
C31_SingleConnection == Cardinality({w \in ThreadIds : Connected(w)}) <= 1

\* C36: whenever no worker thread is alive and no start call is in
\* progress, _is_running is false and bot is None.
C36_FlagFollowsWorker ==
    NoWorker /\ main_pc \notin {"start_check", "start_spawn", "start_flag"}
        => ~bot_is_running /\ bot = None

----------------------------------------------------------------------------
(* Claims on the event callbacks *)

\* A callback has run.
CalledBack == callback.occ # None

\* C32: the event handler is never invoked for a message whose author is
\* a bot account nor for a reaction_add whose user is one; occurrences of
\* the other four types reach the handler whatever the account kind.
C32_BotAuthoredSuppressed ==
    CalledBack =>
        LET o == callback.occ
        IN  /\ o.type \in {"message", "reaction_add"} /\ o.bot
                => callback.invoked = 0
            /\ (o.type \notin {"message", "reaction_add"}
                    /\ o.event_handler # "none" /\ o.build = "ok")
                => callback.invoked = 1

\* A reaction of a bot account was dropped and a bot member's join was
\* handed to the handler.
C32_Witness ==
    /\ CalledBack
    /\ callback.occ.bot
    /\ \/ callback.occ.type = "reaction_add" /\ callback.invoked = 0
       \/ callback.occ.type = "member_join" /\ callback.invoked = 1

\* The occurrence is one the callback is to hand on: a handler is
\* registered and the account is not one whose events are suppressed.
Passed(o) ==
    /\ o.event_handler # "none"
    /\ ~(o.type \in {"message", "reaction_add"} /\ o.bot)

\* C33: for an occurrence of a known type the callback either invokes the
\* handler exactly once with the normalized event, or drops the occurrence
\* after logging; a failure of the build or of the handler never leaves the
\* callback.
C33_CallbackNeverRaises ==
    CalledBack =>
        LET o == callback.occ
        IN  /\ ~callback.propagated
            /\ Passed(o) =>
                \/ /\ callback.invoked = 1
                   /\ callback.event_type = PyStr(o.type)
                   /\ callback.data = build_data(o)
                \/ callback.invoked = 0 /\ callback.logged
            /\ Passed(o) /\ (o.build = "raises" \/ o.event_handler = "raises")
                => callback.logged

\* The build raised, or the handler did, and the callback logged it.
C33_Witness ==
    /\ CalledBack
    /\ Passed(callback.occ)
    /\ callback.occ.type = "channel_create"
    /\ callback.occ.build = "raises"
    /\ callback.logged

----------------------------------------------------------------------------
(* Claims on the listener's configuration *)

\* C34: when the bot token is missing or the bot is disabled, initialize
\* fails before a BotManager is made: the main thread never enters
\* BotManager.start or stop, no worker thread is ever started, and the
\* process ends with a failure status.
C34_ConfigurationRefused ==
    /\ \/ bot_section.token \in {Absent, None, PyStr("")}
       \/ bot_section.enabled = PyBool(FALSE)
    /\ main_pc # "initialize"
    =>
        /\ main_ctx.ret = "refused"
        /\ main_pc \in {"not_initialized", "exited"}
        /\ NoWorker /\ bot = None
        /\ main_pc = "exited" => exit_status = PyInt(1)

\* The bot is disabled in config.yaml, with a token set, and the listener
\* process has ended.
C34_Witness ==
    /\ bot_section = [token |-> PyStr("token"), enabled |-> PyBool(FALSE)]
    /\ main_pc = "exited"
    /\ exit_status = PyInt(1)

----------------------------------------------------------------------------
(* Further claims on ListenerManager *)

\* The pids of the listeners that are alive, whichever ListenerManager
\* launched them.
Listeners(table) == {p \in DOMAIN table : table[p] \in {"child", "orphan"}}

\* C35: at most one listener process is alive at any time, and start (by
\* itself or inside restart) launches a listener only when none is alive.
C35_OneListenerAlive ==
    /\ Cardinality(Listeners(procs)) <= 1
    /\ Called("start") /\ call.case = "started"
          => Listeners(call.before.procs) = {}
    /\ Called("restart") /\ call.case = "started"
          => Listeners(call.first.procs) = {}

\* start launched a listener while the exited one it had launched before
\* is still in the process table.
C35_Witness ==
    /\ Called("start")
    /\ call.case = "started"
    /\ \E p \in Pids : call.before.procs[p] = "zombie"
    /\ Cardinality(Listeners(procs)) = 1

\* C37: whenever the handle is set and the PID file exists, the file
\* names the handle's pid; and get_status reports a pid exactly when it
\* reports is_running true.
C37_RecordNamesHandle ==
    /\ process # None /\ pid_file # Absent
          => load_pid(pid_file) = PyInt(process.pid)
    /\ Called("get_status") => (call.pid # None <=> call.ret = PyBool(TRUE))

\* get_status of a ListenerManager that holds the handle of its running
\* listener, with the PID file start wrote.
C37_Witness ==
    /\ Called("get_status")
    /\ call.ret = PyBool(TRUE)
    /\ process # None
    /\ pid_file # Absent
    /\ call.pid = PyInt(process.pid)

----------------------------------------------------------------------------
(* C38 *)

\* The handled event carries a guild_id that is not null.
InGuild == event.data.guild_id \notin {Absent, None}

\* The rule is restricted to one channel: scope_type "channel" and a scope_id.
ChannelScoped(rule) ==
    /\ rule.scope_type = PyStr("channel")
    /\ rule.scope_id \notin {Absent, None}

\* The event carries a channel_id and the rule's scope_id names it.
SameChannel(rule) ==
    /\ event.data.channel_id \notin {Absent, None}
    /\ Str(rule.scope_id) = Str(event.data.channel_id)

----------------------------------------------------------------------------
(* C39 *)

\* A POST was attempted for the rule: session.post was called with its
\* webhook_url and a payload carrying its name.
Attempted(rule) ==
    \E d \in 1..Len(deliveries) :
        /\ deliveries[d].post
        /\ deliveries[d].webhook_url = rule.webhook_url
        /\ deliveries[d].rule_name = rule.name

\* C39: with the forwarder started, every well-formed matched rule that
\* follows a matched rule without a name or a webhook_url key in snapshot
\* order still gets its POST attempt for the handled event.
C39_MalformedRuleDoesNotStopOthers ==
    (Handled /\ session = "open") =>
        \A j, k \in 1..Len(rules) :
            (j < k /\ ~WellFormed(rules[j]) /\ WellFormed(rules[k])) =>
                Attempted(rules[k])

----------------------------------------------------------------------------
(* C40 *)

\* C40: the listener started by ListenerManager.start is never stuck in the
\* write of a log record to its standard error: however many records it
\* has written, the write of the next one returns, although nothing reads
\* the pipe the supervisor attached.
C40_ListenerNeverBlockedOnOutput == listener # "blocked"

============================================================================
